---- MODULE Spec2Model ----
(***************************************************************************)
(* A model of the Common Assembly compiler (lexer, parser, semantic        *)
(* analyser / code generator, linker pass).                                 *)
(*                                                                         *)
(* The module holds several components, each with its own variables and    *)
(* its own specification:                                                  *)
(*   SpecReg  - the per-function register state driven by the statements   *)
(*              of a function body (compileBlockToAssembly and callees).    *)
(*   SpecLink - compileAssembly: lowering of function bodies to text with   *)
(*              call/return placeholders, the linker pass, concatenation.   *)
(*   SpecCond - parseCondition / parseComparison over keyword lists.        *)
(*   SpecLex  - lexCode over source texts.                                  *)
(*   SpecArgs - a function-call statement from source text to the errors    *)
(*              reported for its arguments.                                 *)
(* Texts are sequences of one-character strings.                           *)
(***************************************************************************)
EXTENDS Integers, Sequences, FiniteSets, TLC

VARIABLES
    \* ---- register-state component (compiler.go, registerState) ----
    pc,                            \* "head" | "body" | "done": position in compileFunctionDefinition
    head,                          \* the function head being compiled (mutatedRegisters, arguments)
    registers,                     \* regState.registers of the block being compiled
    functionReturnValueRegisters,  \* regState.functionReturnValueRegisters
    scopes,                        \* enclosing loop / branch bodies (the Go call stack of compileBlockToAssembly)
    returned,                      \* the current block ended with a return statement
    outcome,                       \* "ok" | "error" | "panic"
    errs,                          \* the errors returned (messages, in order)
    statement,                     \* the statement compiled last
    \* ---- linking component (compiler.go, compilerState and compileAssembly) ----
    globalFunctions,               \* the function definitions of the AST, by name
    phase,                         \* position in compileAssembly
    compileStack,                  \* calls of compileFunctionDefinition in progress
    compiledFunctions,             \* state.compiledFunctions
    numberOfJumps,                 \* state.numberOfJumps
    linkStack,                     \* calls of transformFunctionDefinitionIntoValidAssembly in progress
    out,                           \* the assembly compileAssembly returns
    previousOut,                   \* the assembly the previous run on the same AST returned
    run,                           \* 1 in the first run of compileAssembly, 2 in the second
    \* ---- lexing component (lexer.go, lexCode) ----
    code,                          \* the text handed to lexCode
    lexer,                         \* the state of lexCode: position, keywords, errors, nesting
    \* ---- function-call component (helpers.go, codeToAssembly) ----
    stage,                         \* "lex" | "parse" | "compile" | "done": position in codeToAssembly
    callText,                      \* the pieces the text of the statement is made of
    regState,                      \* the register state at the function call
    callArguments,                 \* the arguments as parseFunctionArguments returns them
    returnedErrors,                \* the errors codeToAssembly returns
    \* ---- condition component (parser.go, parseConditionalBlock) ----
    condStage,                     \* "lex" | "collect" | "parse" | "done"
    conditionText,                 \* the pieces the text of the condition is made of
    conditionKeywords,             \* the keywords between `if` and `{`
    conditionResult,               \* what parseCondition returns
    \* ---- operand component (compiler.go, convertValueToAssembly) ----
    lowered,                       \* the value being lowered and the assembly text made of it
    \* ---- branching component (compiler.go, conditionToAssembly) ----
    branch,                        \* a condition, the assembly made of it and its execution
    \* ---- block component (parser.go, parseBlock) ----
    parsing                        \* the keywords of a function body and the blocks parsed of them

regVars == <<pc, head, registers, functionReturnValueRegisters, scopes, returned, outcome,
             errs, statement>>

linkVars == <<globalFunctions, phase, compileStack, compiledFunctions, numberOfJumps,
              linkStack, out, previousOut, run>>

lexVars == <<code, lexer>>

argsVars == <<stage, callText, regState, callArguments, returnedErrors>>

condVars == <<condStage, conditionText, conditionKeywords, conditionResult>>

operandVars == <<lowered>>

branchVars == <<branch>>

blockVars == <<parsing>>

vars == <<regVars, linkVars, lexVars, argsVars, condVars, operandVars, branchVars, blockVars>>

\* What a step of one component leaves alone: the other components.
outsideReg == <<linkVars, lexVars, argsVars, condVars, operandVars, branchVars, blockVars>>
outsideLink == <<regVars, lexVars, argsVars, condVars, operandVars, branchVars, blockVars>>
outsideLex == <<regVars, linkVars, argsVars, condVars, operandVars, branchVars, blockVars>>
outsideArgs == <<regVars, linkVars, condVars, operandVars, branchVars, blockVars>>
outsideCond == <<regVars, linkVars, argsVars, operandVars, branchVars, blockVars>>
outsideOperand == <<regVars, linkVars, lexVars, argsVars, condVars, branchVars, blockVars>>
outsideBranch == <<regVars, linkVars, lexVars, argsVars, condVars, operandVars, blockVars>>
outsideBlock == <<regVars, linkVars, lexVars, argsVars, condVars, operandVars, branchVars>>

(***************************************************************************)
(* Bounds of the model                                                     *)
(***************************************************************************)
MaxDepth == 2        \* nesting depth of loop / branch bodies

(***************************************************************************)
(* Program constants                                                       *)
(***************************************************************************)
NumRegisters == 16
UnknownRegister == -1
Registers == 0 .. (NumRegisters - 1)

NoError == ""

\* textLocation{line, column}; the zero value is "no location"
Loc(l, c) == [line |-> l, column |-> c]
ZeroLocation == Loc(0, 0)
SomeLocation == Loc(1, 1)

individualRegisterState(name, stop, mutable) ==
    [variableName |-> name, stopVariableFromBeingDropped |-> stop,
     registerWasDefinedAsMutable |-> mutable]

EmptyRegisters == [r \in Registers |-> individualRegisterState("", FALSE, FALSE)]

codeParsingError(msg, loc) == [msg |-> msg, textLocation |-> loc]

(***************************************************************************)
(* Raw values, arguments, destinations (AST)                               *)
(***************************************************************************)
variableValue(name, dropped, deref, loc) ==
    [kind |-> "variable", name |-> name, variableIsDropped |-> dropped,
     pointerDereferenceLayers |-> deref, textLocation |-> loc]

\* numberValue, characterValue and stringValue: anything that is not a variable
literalValue(kind, loc) ==
    [kind |-> kind, name |-> "", variableIsDropped |-> FALSE,
     pointerDereferenceLayers |-> 0, textLocation |-> loc]

registerAndRawValueAndLocation(register, value) ==
    [register |-> register, value |-> value, textLocation |-> value.textLocation]

variableMutationDestination(register, name, deref) ==
    [register |-> register, name |-> name, pointerDereferenceLayers |-> deref,
     textLocation |-> SomeLocation]

(***************************************************************************)
(* getRegisterFromVariableName                                             *)
(***************************************************************************)
\* the first register (lowest index) bound to variableName, or UnknownRegister
FindRegister(regs, variableName) ==
    IF \E r \in Registers : regs[r].variableName = variableName
    THEN CHOOSE r \in Registers :
            /\ regs[r].variableName = variableName
            /\ \A q \in Registers : q < r => regs[q].variableName # variableName
    ELSE UnknownRegister

DropLockIgnored(regs, variableName, variableIsDropped, loc) ==
    LET register == FindRegister(regs, variableName) IN
    IF register = UnknownRegister
    THEN [register |-> UnknownRegister, regs |-> regs,
          err |-> codeParsingError("CouldNotFindVariable", loc)]
    ELSE IF ~variableIsDropped
    THEN [register |-> register, regs |-> regs, err |-> codeParsingError(NoError, ZeroLocation)]
    ELSE IF ~regs[register].registerWasDefinedAsMutable
    THEN [register |-> UnknownRegister, regs |-> regs,
          err |-> codeParsingError("DropOfImmutableRegister", loc)]
    ELSE [register |-> register,
          regs |-> [regs EXCEPT ![register].variableName = ""],
          err |-> codeParsingError(NoError, ZeroLocation)]

\* the part of getRegisterFromVariableName after the search loop
registerOfVariable(register, regs, variableIsDropped, loc) ==
    IF register = UnknownRegister
    THEN [register |-> UnknownRegister, regs |-> regs,
          err |-> codeParsingError("CouldNotFindVariable", loc)]
    ELSE IF ~variableIsDropped
    THEN [register |-> register, regs |-> regs, err |-> codeParsingError(NoError, ZeroLocation)]
    ELSE IF regs[register].stopVariableFromBeingDropped
    THEN [register |-> UnknownRegister, regs |-> regs,
          err |-> codeParsingError("CannotDropInThisScope", loc)]
    ELSE IF ~regs[register].registerWasDefinedAsMutable
    THEN [register |-> UnknownRegister, regs |-> regs,
          err |-> codeParsingError("DropOfImmutableRegister", loc)]
    ELSE [register |-> register,
          regs |-> [regs EXCEPT ![register].variableName = ""],
          err |-> codeParsingError(NoError, ZeroLocation)]

\* Result: register, regs (the register state as left behind), err.
getRegisterFromVariableName(regs, variableName, variableIsDropped, loc) ==
    registerOfVariable(FindRegister(regs, variableName), regs, variableIsDropped, loc)

(***************************************************************************)
(* convertValueToAssembly: its effect on the register state.               *)
(* Result: register (of a variable), regs, err.                            *)
(***************************************************************************)
convertValueToAssembly(regs, value) ==
    IF value.kind = "variable"
    THEN getRegisterFromVariableName(regs, value.name, value.variableIsDropped,
                                     value.textLocation)
    ELSE [register |-> UnknownRegister, regs |-> regs,
          err |-> codeParsingError(NoError, ZeroLocation)]

(***************************************************************************)
(* checkRegisterListsAreTheSame(expectedRegisters, givenRegisters)         *)
(* given: sequence of [register, location].  Reading givenRegisters[0] of  *)
(* an empty list is an index-out-of-range abort.                           *)
(***************************************************************************)
FirstMismatch(expected, given) ==
    IF \E i \in 1 .. Len(expected) : expected[i] # given[i].register
    THEN CHOOSE i \in 1 .. Len(expected) :
            /\ expected[i] # given[i].register
            /\ \A j \in 1 .. (i - 1) : expected[j] = given[j].register
    ELSE 0

mismatchError(given, i) ==
    IF i # 0
    THEN [panic |-> FALSE, err |-> codeParsingError("ExpectedOtherRegister", given[i].location)]
    ELSE [panic |-> FALSE, err |-> codeParsingError(NoError, ZeroLocation)]

checkRegisterListsAreTheSame(expected, given) ==
    IF Len(expected) # Len(given)
    THEN IF Len(given) = 0
         THEN [panic |-> TRUE, err |-> codeParsingError(NoError, ZeroLocation)]
         ELSE [panic |-> FALSE, err |-> codeParsingError("ExpectedNItems", given[1].location)]
    ELSE mismatchError(given, FirstMismatch(expected, given))

(***************************************************************************)
(* compileFunctionCallArguments(functionArguments, regState,               *)
(*                              checkImplicitVariableMutation)             *)
(* Result: errs (the returned errors), registers (the argument registers   *)
(* with their locations), regs (the register state as left behind).        *)
(***************************************************************************)
\* one iteration of the loop over the arguments, up to the duplicate check
compileFunctionCallArgument(regs, arg, checkImplicitVariableMutation) ==
    IF arg.register = UnknownRegister
    THEN IF arg.value.kind # "variable"
         THEN [register |-> UnknownRegister, regs |-> regs,
               err |-> codeParsingError("MustPassVariableWithoutRegister", arg.textLocation)]
         ELSE getRegisterFromVariableName(regs, arg.value.name,
                  arg.value.variableIsDropped, arg.value.textLocation)
    ELSE IF ~regs[arg.register].registerWasDefinedAsMutable
    THEN [register |-> UnknownRegister, regs |-> regs,
          err |-> codeParsingError("NotPossibleToMutateRegister", arg.textLocation)]
    ELSE IF checkImplicitVariableMutation /\ regs[arg.register].variableName # ""
    THEN [register |-> UnknownRegister, regs |-> regs,
          err |-> codeParsingError("OnlyMutableThroughVariable", arg.textLocation)]
    ELSE [convertValueToAssembly(regs, arg.value) EXCEPT !.register = arg.register]

\* the first argument already given that uses the register
FirstUseOfRegister(given, register) ==
    CHOOSE k \in 1 .. Len(given) :
        /\ given[k].register = register
        /\ \A j \in 1 .. (k - 1) : given[j].register # register

RECURSIVE compileFunctionCallArgumentsFrom(_, _, _, _, _)
\* the rest of one iteration, `one` being the result of compileFunctionCallArgument
checkArgumentAndContinue(one, functionArguments, i, given, checkImplicitVariableMutation) ==
    IF one.err.msg # NoError
    THEN [errs |-> <<one.err>>, registers |-> <<>>, regs |-> one.regs]
    ELSE IF \E k \in 1 .. Len(given) : given[k].register = one.register
    THEN [errs |-> <<codeParsingError("RegisterUsedTwiceInArguments",
                         given[FirstUseOfRegister(given, one.register)].location),
                     codeParsingError("RegisterUsedTwiceInArguments",
                         functionArguments[i].textLocation)>>,
          registers |-> <<>>, regs |-> one.regs]
    ELSE compileFunctionCallArgumentsFrom(functionArguments, i + 1, one.regs,
             Append(given, [register |-> one.register,
                            location |-> functionArguments[i].textLocation]),
             checkImplicitVariableMutation)

compileFunctionCallArgumentsFrom(functionArguments, i, regs, given, checkImplicitVariableMutation) ==
    IF i > Len(functionArguments)
    THEN [errs |-> <<>>, registers |-> given, regs |-> regs]
    ELSE checkArgumentAndContinue(
             compileFunctionCallArgument(regs, functionArguments[i], checkImplicitVariableMutation),
             functionArguments, i, given, checkImplicitVariableMutation)

compileFunctionCallArguments(functionArguments, regs, checkImplicitVariableMutation) ==
    compileFunctionCallArgumentsFrom(functionArguments, 1, regs, <<>>, checkImplicitVariableMutation)

(***************************************************************************)
(* validateVariableMutationDestination(mutatedValue, regState)             *)
(* Result: register, errs, panic (an assert failed), regs.                 *)
(***************************************************************************)
\* the checks of validateVariableMutationDestination, `already` being
\* registerTheVariableWasAlreadyDefinedToUse after the search loop
reservedErrs(mutatedValue, regs) ==
    IF /\ mutatedValue.register # UnknownRegister
       /\ regs[mutatedValue.register].variableName # ""
    THEN <<codeParsingError("RegisterAlreadyReserved", mutatedValue.textLocation)>>
    ELSE <<>>

variableErrs(mutatedValue, already) ==
    IF mutatedValue.name = "" THEN <<>>
    ELSE IF already = UnknownRegister
    THEN IF mutatedValue.register = UnknownRegister
         THEN <<codeParsingError("MutateUndefinedVariable", mutatedValue.textLocation)>>
         ELSE <<>>
    ELSE IF mutatedValue.register # UnknownRegister
    THEN IF already # mutatedValue.register
         THEN <<codeParsingError("RedefineVariableOnOtherRegister", mutatedValue.textLocation)>>
         ELSE <<codeParsingError("RegisterAndVariableBothNamed", mutatedValue.textLocation)>>
    ELSE <<>>

\* assert(notEq(already, -1)) resp. assert(eq(already, -1)) fails
assertFails(mutatedValue, already) ==
    IF mutatedValue.register = UnknownRegister
    THEN already = UnknownRegister
    ELSE already # UnknownRegister

\* A validation that accepts registers the function does not mutate.
MutatedListIgnored(mutatedValue, regs, register) == <<>>

mutableErrs(mutatedValue, regs, register) ==
    IF regs[register].registerWasDefinedAsMutable THEN <<>>
    ELSE <<codeParsingError("RegisterNotInMutatedList", mutatedValue.textLocation)>>

validatedDestination(mutatedValue, regs, register, allErrs) ==
    IF Len(allErrs) # 0
    THEN [register |-> UnknownRegister, errs |-> allErrs, panic |-> FALSE, regs |-> regs]
    ELSE IF mutatedValue.register # UnknownRegister /\ mutatedValue.name # ""
    THEN [register |-> register, errs |-> <<>>, panic |-> FALSE,
          regs |-> [regs EXCEPT ![register].variableName = mutatedValue.name]]
    ELSE [register |-> register, errs |-> <<>>, panic |-> FALSE, regs |-> regs]

validateDestinationWith(mutatedValue, regs, already) ==
    IF assertFails(mutatedValue, already)
    THEN [register |-> UnknownRegister, errs |-> <<>>, panic |-> TRUE, regs |-> regs]
    ELSE IF mutatedValue.register = UnknownRegister
    THEN validatedDestination(mutatedValue, regs, already,
             reservedErrs(mutatedValue, regs) \o variableErrs(mutatedValue, already)
                 \o mutableErrs(mutatedValue, regs, already))
    ELSE validatedDestination(mutatedValue, regs, mutatedValue.register,
             reservedErrs(mutatedValue, regs) \o variableErrs(mutatedValue, already)
                 \o mutableErrs(mutatedValue, regs, mutatedValue.register))

\* A validation that does not look for the register the variable is bound to.
DestinationNameNotSearched(mutatedValue, regs) ==
    validateDestinationWith(mutatedValue, regs, UnknownRegister)

validateVariableMutationDestination(mutatedValue, regs) ==
    validateDestinationWith(mutatedValue, regs,
        IF mutatedValue.name # "" THEN FindRegister(regs, mutatedValue.name)
        ELSE UnknownRegister)

(***************************************************************************)
(* A statement's result: outcome "ok" | "error" | "panic", errs, regs.     *)
(***************************************************************************)
Accepted(regs) == [outcome |-> "ok", errs |-> <<>>, regs |-> regs]
Rejected(es, regs) == [outcome |-> "error", errs |-> es, regs |-> regs]
Aborted(regs) == [outcome |-> "panic", errs |-> <<>>, regs |-> regs]

\* c: a result with fields regs and err
AcceptedUnlessError(c) ==
    IF c.err.msg # NoError THEN Rejected(<<c.err>>, c.regs) ELSE Accepted(c.regs)

(***************************************************************************)
(* compileVariableMutation(instruction, source, destination, ...)          *)
(* hasSource is FALSE for inc / dec (source == nil).                       *)
(***************************************************************************)
\* the part after validateVariableMutationDestination, whose result is v
mutateValidatedDestination(v, hasSource, source, destination, regs) ==
    IF v.panic THEN Aborted(regs)
    ELSE IF Len(v.errs) # 0 THEN Rejected(v.errs, regs)
    ELSE IF destination[1].name = ""
    THEN Rejected(<<codeParsingError("RegisterWithoutVariableName",
                                     destination[1].textLocation)>>, v.regs)
    ELSE IF ~hasSource THEN Accepted(v.regs)
    ELSE AcceptedUnlessError(convertValueToAssembly(v.regs, source))

compileVariableMutation(hasSource, source, destination, regs) ==
    IF Len(destination) # 1
    THEN Rejected(<<codeParsingError("ExpectOneValueOnLeftSide", SomeLocation)>>, regs)
    ELSE mutateValidatedDestination(
             validateVariableMutationDestination(destination[1], regs),
             hasSource, source, destination, regs)

(***************************************************************************)
(* compileFunctionCall(destination, operation, regState, siblingFunctions) *)
(* siblingFunctions maps a user-defined function's name to its head:       *)
(* [arguments: registers, mutatedRegisters: [register, name]].  The body   *)
(* of a user-defined callee is compiled on a register state of its own     *)
(* (compileFunctionDefinition); that is modelled in the linking component. *)
(***************************************************************************)
BuiltinFunctions == {"sysRead", "sysWrite", "sysOpen", "sysClose", "sysBrk", "sysExit"}

functionExpectedArgRegisters(functionName, siblingFunctions) ==
    IF functionName \in DOMAIN siblingFunctions
    THEN siblingFunctions[functionName].arguments
    ELSE IF functionName \in {"sysRead", "sysWrite", "sysOpen"} THEN <<5, 4, 3>>
    ELSE <<5>>

functionExpectedMutatedRegisters(functionName, siblingFunctions) ==
    IF functionName \in DOMAIN siblingFunctions
    THEN siblingFunctions[functionName].mutatedRegisters
    ELSE IF functionName = "sysOpen" THEN <<[register |-> 0, name |-> "fileDescriptor"]>>
    ELSE <<[register |-> 0, name |-> "exitCode"]>>

registersOf(expectedMutated) ==
    [i \in 1 .. Len(expectedMutated) |-> expectedMutated[i].register]

\* the loop "Get mutated registers": validates every destination in order,
\* collecting the errors and the registers
RECURSIVE validateDestinationsFrom(_, _, _, _, _)
collectDestination(v, destination, i, regs, given, collected) ==
    IF v.panic
    THEN [panic |-> TRUE, errs |-> collected, registers |-> given, regs |-> regs]
    ELSE validateDestinationsFrom(destination, i + 1, v.regs,
             Append(given, [register |-> v.register,
                            location |-> destination[i].textLocation]),
             collected \o v.errs \o
                 (IF destination[i].pointerDereferenceLayers > 0
                  THEN <<codeParsingError("MutatedValueCannotBeDereferenced",
                                          destination[i].textLocation)>>
                  ELSE <<>>))

validateDestinationsFrom(destination, i, regs, given, collected) ==
    IF i > Len(destination)
    THEN [panic |-> FALSE, errs |-> collected, registers |-> given, regs |-> regs]
    ELSE collectDestination(validateVariableMutationDestination(destination[i], regs),
                            destination, i, regs, given, collected)

\* "Check that the function mutated registers use the expected registers"
\* and the loop over the expected names
checkMutatedRegisters(mutCheck, expectedMutated, destination, regs) ==
    IF mutCheck.panic THEN Aborted(regs)
    ELSE IF mutCheck.err.msg # NoError THEN Rejected(<<mutCheck.err>>, regs)
    ELSE IF \E i \in 1 .. Len(expectedMutated) :
                expectedMutated[i].name = "" /\ destination[i].name # ""
    THEN Rejected(<<codeParsingError("CalleeDoesNotGuaranteeToMutate", SomeLocation)>>, regs)
    ELSE Accepted(regs)

\* d: the result of the loop "Get mutated registers"
getMutatedRegisters(d, destination, functionName, regs, siblingFunctions) ==
    IF d.panic THEN Aborted(regs)
    ELSE IF Len(d.errs) > 0 THEN Rejected(d.errs, d.regs)
    ELSE checkMutatedRegisters(
             checkRegisterListsAreTheSame(
                 registersOf(functionExpectedMutatedRegisters(functionName, siblingFunctions)),
                 d.registers),
             functionExpectedMutatedRegisters(functionName, siblingFunctions),
             destination, d.regs)

\* "Check that the function arguments use the expected registers"
checkArgumentRegisters(argCheck, destination, functionName, regs, siblingFunctions) ==
    IF argCheck.panic THEN Aborted(regs)
    ELSE IF argCheck.err.msg # NoError THEN Rejected(<<argCheck.err>>, regs)
    ELSE getMutatedRegisters(validateDestinationsFrom(destination, 1, regs, <<>>, <<>>),
                             destination, functionName, regs, siblingFunctions)

\* a: the result of compileFunctionCallArguments
afterFunctionCallArguments(a, destination, functionName, siblingFunctions) ==
    IF Len(a.errs) # 0 THEN Rejected(a.errs, a.regs)
    ELSE checkArgumentRegisters(
             checkRegisterListsAreTheSame(
                 functionExpectedArgRegisters(functionName, siblingFunctions), a.registers),
             destination, functionName, a.regs, siblingFunctions)

\* a function call whose destinations are validated before its arguments
DestinationsBeforeArguments(destination, functionName, functionArgs, regs, siblingFunctions) ==
    IF functionName \notin DOMAIN siblingFunctions /\ functionName \notin BuiltinFunctions
    THEN Rejected(<<codeParsingError("CallToUndefinedFunction", SomeLocation)>>, regs)
    ELSE
    LET d == validateDestinationsFrom(destination, 1, regs, <<>>, <<>>) IN
    IF d.panic THEN Aborted(regs)
    ELSE IF Len(d.errs) > 0 THEN Rejected(d.errs, d.regs)
    ELSE
    LET a == compileFunctionCallArguments(functionArgs, d.regs, TRUE) IN
    IF Len(a.errs) # 0 THEN Rejected(a.errs, a.regs)
    ELSE
    LET argCheck == checkRegisterListsAreTheSame(
                        functionExpectedArgRegisters(functionName, siblingFunctions),
                        a.registers) IN
    IF argCheck.panic THEN Aborted(a.regs)
    ELSE IF argCheck.err.msg # NoError THEN Rejected(<<argCheck.err>>, a.regs)
    ELSE checkMutatedRegisters(
             checkRegisterListsAreTheSame(
                 registersOf(functionExpectedMutatedRegisters(functionName, siblingFunctions)),
                 d.registers),
             functionExpectedMutatedRegisters(functionName, siblingFunctions),
             destination, a.regs)

compileFunctionCall(destination, functionName, functionArgs, regs, siblingFunctions) ==
    IF functionName \notin DOMAIN siblingFunctions /\ functionName \notin BuiltinFunctions
    THEN Rejected(<<codeParsingError("CallToUndefinedFunction", SomeLocation)>>, regs)
    ELSE afterFunctionCallArguments(compileFunctionCallArguments(functionArgs, regs, TRUE),
                                    destination, functionName, siblingFunctions)

(***************************************************************************)
(* conditionToAssembly: its effect on the register state.                  *)
(* A condition is booleanValue, comparison or boolean (and / or).          *)
(***************************************************************************)
booleanValue(value) == [kind |-> "booleanValue", value |-> value]
comparison(operator, leftValue, rightValue) ==
    [kind |-> "comparison", operator |-> operator,
     leftValue |-> leftValue, rightValue |-> rightValue]
boolean(isAndInsteadOfOr, conditions) ==
    [kind |-> "boolean", isAndInsteadOfOr |-> isAndInsteadOfOr, conditions |-> conditions]

isValidLastOperandForMoveAndCmpInstructions(value) == value.kind = "variable"

NoConditionError(regs) ==
    [register |-> UnknownRegister, regs |-> regs, err |-> codeParsingError(NoError, ZeroLocation)]

\* the second convertValueToAssembly of a comparison, after the first
secondOperandEffect(first, rightValue) ==
    IF first.err.msg # NoError THEN first
    ELSE convertValueToAssembly(first.regs, rightValue)

comparisonRegisterEffect(regs, condition) ==
    IF ~isValidLastOperandForMoveAndCmpInstructions(condition.rightValue)
    THEN IF ~isValidLastOperandForMoveAndCmpInstructions(condition.leftValue)
         THEN [register |-> UnknownRegister, regs |-> regs,
               err |-> codeParsingError("ComparisonNeedsVariable", SomeLocation)]
         ELSE \* the operands are flipped
              secondOperandEffect(convertValueToAssembly(regs, condition.rightValue),
                                  condition.leftValue)
    ELSE secondOperandEffect(convertValueToAssembly(regs, condition.leftValue),
                             condition.rightValue)

RECURSIVE conditionRegisterEffect(_, _)
RECURSIVE clausesRegisterEffect(_, _, _)
nextClauseEffect(one, conditions, i) ==
    IF one.err.msg # NoError THEN one
    ELSE clausesRegisterEffect(one.regs, conditions, i + 1)

clausesRegisterEffect(regs, conditions, i) ==
    IF i > Len(conditions)
    THEN NoConditionError(regs)
    ELSE nextClauseEffect(conditionRegisterEffect(regs, conditions[i]), conditions, i)

conditionRegisterEffect(regs, condition) ==
    IF condition.kind = "booleanValue"
    THEN NoConditionError(regs)
    ELSE IF condition.kind = "boolean"
    THEN clausesRegisterEffect(regs, condition.conditions, 1)
    ELSE comparisonRegisterEffect(regs, condition)

(***************************************************************************)
(* parseRegisterStatesToInnerScope                                         *)
(***************************************************************************)
parseRegisterStatesToInnerScope(regs) ==
    [r \in Registers |->
        IF regs[r].variableName # ""
        THEN [regs[r] EXCEPT !.stopVariableFromBeingDropped = TRUE]
        ELSE regs[r]]

(***************************************************************************)
(* parseFunctionDefinitionRegisters(mutatedRegisters, functionArgs)        *)
(* both lists hold [register, name].                                       *)
(***************************************************************************)
UsedTwice(msg) ==
    [errs |-> <<codeParsingError(msg, SomeLocation), codeParsingError(msg, SomeLocation)>>,
     regs |-> EmptyRegisters, returnRegisters |-> <<>>]

RECURSIVE parseMutatedRegistersFrom(_, _, _, _)
parseMutatedRegistersFrom(mutatedRegisters, i, regs, returnRegisters) ==
    IF i > Len(mutatedRegisters)
    THEN [errs |-> <<>>, regs |-> regs, returnRegisters |-> returnRegisters]
    ELSE IF regs[mutatedRegisters[i].register].registerWasDefinedAsMutable
    THEN UsedTwice("RegisterUsedTwiceInMutatedRegisters")
    ELSE parseMutatedRegistersFrom(mutatedRegisters, i + 1,
             [regs EXCEPT ![mutatedRegisters[i].register].registerWasDefinedAsMutable = TRUE],
             IF mutatedRegisters[i].name # ""
             THEN Append(returnRegisters, mutatedRegisters[i].register)
             ELSE returnRegisters)

RECURSIVE parseFunctionArgsFrom(_, _, _, _)
parseFunctionArgsFrom(functionArgs, i, regs, returnRegisters) ==
    IF i > Len(functionArgs)
    THEN [errs |-> <<>>, regs |-> regs, returnRegisters |-> returnRegisters]
    ELSE IF regs[functionArgs[i].register].variableName # ""
    THEN UsedTwice("RegisterUsedTwiceInFunctionArguments")
    ELSE IF \E r \in Registers : regs[r].variableName = functionArgs[i].name
    THEN UsedTwice("VariableNameUsedTwiceInFunctionArguments")
    ELSE parseFunctionArgsFrom(functionArgs, i + 1,
             [regs EXCEPT ![functionArgs[i].register].variableName = functionArgs[i].name],
             returnRegisters)

\* m: the result of the loop over the mutated registers
parseFunctionArgsAfter(m, functionArgs) ==
    IF Len(m.errs) # 0 THEN m
    ELSE parseFunctionArgsFrom(functionArgs, 1, m.regs, m.returnRegisters)

parseFunctionDefinitionRegisters(mutatedRegisters, functionArgs) ==
    parseFunctionArgsAfter(parseMutatedRegistersFrom(mutatedRegisters, 1, EmptyRegisters, <<>>),
                           functionArgs)

(***************************************************************************)
(* The statements the register-state component draws from (AST values as   *)
(* the parser builds them).                                                *)
(***************************************************************************)
Names == {"a", "b"}
InputRegisters == {0, 5}

registerAndNameAndLocation(register, name) == [register |-> register, name |-> name]

Heads ==
    { \* fn r0 out, r5 = main(r0 = a, r5 = b)
      [mutatedRegisters |-> <<registerAndNameAndLocation(0, "out"),
                              registerAndNameAndLocation(5, "")>>,
       arguments |-> <<registerAndNameAndLocation(0, "a"),
                       registerAndNameAndLocation(5, "b")>>],
      \* fn r5 = main(r0 = a)
      [mutatedRegisters |-> <<registerAndNameAndLocation(5, "")>>,
       arguments |-> <<registerAndNameAndLocation(0, "a")>>],
      \* fn r0, r0 = main()
      [mutatedRegisters |-> <<registerAndNameAndLocation(0, ""),
                              registerAndNameAndLocation(0, "")>>,
       arguments |-> <<>>],
      \* fn r5 = main(r0 = a, r0 = b)
      [mutatedRegisters |-> <<registerAndNameAndLocation(5, "")>>,
       arguments |-> <<registerAndNameAndLocation(0, "a"),
                       registerAndNameAndLocation(0, "b")>>],
      \* fn r5 = main(r0 = a, r5 = a)
      [mutatedRegisters |-> <<registerAndNameAndLocation(5, "")>>,
       arguments |-> <<registerAndNameAndLocation(0, "a"),
                       registerAndNameAndLocation(5, "a")>>],
      \* fn r5 = main()
      [mutatedRegisters |-> <<registerAndNameAndLocation(5, "")>>,
       arguments |-> <<>>] }

\* the heads of the user-defined functions a body may call:
\*   fn r0 result, r5 = f(r5 = n)
SiblingFunctions ==
    [name \in {"f"} |->
        [arguments |-> <<5>>,
         mutatedRegisters |-> <<registerAndNameAndLocation(0, "result"),
                                registerAndNameAndLocation(5, "")>>]]

Values ==
    {literalValue("number", SomeLocation)}
    \cup {variableValue(n, d, 0, SomeLocation) : n \in Names, d \in BOOLEAN}

Number == literalValue("number", SomeLocation)

CallArgumentLists ==
    {<<>>}
    \cup {<<registerAndRawValueAndLocation(5, v)>> :
            v \in Values \ {variableValue("b", FALSE, 0, SomeLocation)}}
    \cup {<<registerAndRawValueAndLocation(UnknownRegister, v)>> :
            v \in {Number, variableValue("a", TRUE, 0, SomeLocation)}}
    \cup {<<registerAndRawValueAndLocation(0, Number)>>,
          <<registerAndRawValueAndLocation(5, Number), registerAndRawValueAndLocation(5, Number)>>}

Destinations ==
    {variableMutationDestination(r, n, 0) :
        r \in InputRegisters \cup {UnknownRegister}, n \in Names \cup {""}}
    \ {variableMutationDestination(UnknownRegister, "", 0)}

DestinationPairs ==
    {<<variableMutationDestination(0, n, 0), variableMutationDestination(5, m, 0)>> :
        n \in {"", "a"}, m \in {"", "a", "b"}}

mutationStatement(destination, hasSource, source) ==
    [kind |-> "mutation", destination |-> destination, hasSource |-> hasSource,
     source |-> source]
setToFunctionCallValue(destination, functionName, functionArgs) ==
    [kind |-> "call", destination |-> destination, functionName |-> functionName,
     functionArgs |-> functionArgs]
dropVariableStatement(variable) == [kind |-> "drop", variable |-> variable]
returnStatement(returnedValues) == [kind |-> "return", returnedValues |-> returnedValues]

MutationStatements ==
    {mutationStatement(<<d>>, TRUE, v) :
        d \in Destinations,
        v \in {Number, variableValue("a", FALSE, 0, SomeLocation),
               variableValue("a", TRUE, 0, SomeLocation)}}
    \cup {mutationStatement(<<d>>, FALSE, Number) : d \in Destinations}
    \cup {mutationStatement(<<variableMutationDestination(UnknownRegister, "a", 1)>>, TRUE, Number)}
    \cup {mutationStatement(d, TRUE, Number) : d \in DestinationPairs}

FunctionCallStatements ==
    {setToFunctionCallValue(<<d>>, "sysExit", a) :
        d \in {variableMutationDestination(0, "", 0), variableMutationDestination(5, "", 0),
               variableMutationDestination(0, "a", 0),
               variableMutationDestination(UnknownRegister, "a", 0),
               variableMutationDestination(UnknownRegister, "a", 1)},
        a \in CallArgumentLists}
    \cup {setToFunctionCallValue(d, "f", a) : d \in DestinationPairs, a \in CallArgumentLists}
    \cup {setToFunctionCallValue(<<variableMutationDestination(0, "", 0)>>, fn, <<>>) :
            fn \in {"undefinedFunction", "f"}}
    \cup {setToFunctionCallValue(d, "sysExit", <<registerAndRawValueAndLocation(5, Number)>>) :
            d \in DestinationPairs}

DropStatements == {dropVariableStatement(n) : n \in Names}

ReturnStatements == {returnStatement(a) : a \in CallArgumentLists}

Conditions ==
    { booleanValue(TRUE),
      comparison("<", variableValue("a", FALSE, 0, SomeLocation),
                      literalValue("number", SomeLocation)),
      comparison("<", variableValue("a", TRUE, 0, SomeLocation),
                      literalValue("number", SomeLocation)),
      comparison("<", variableValue("b", TRUE, 0, SomeLocation),
                      variableValue("a", FALSE, 0, SomeLocation)),
      comparison("<", literalValue("number", SomeLocation),
                      literalValue("number", SomeLocation)),
      boolean(TRUE, <<comparison("<", variableValue("a", TRUE, 0, SomeLocation),
                                      literalValue("number", SomeLocation)),
                      comparison("<", variableValue("a", FALSE, 0, SomeLocation),
                                      literalValue("number", SomeLocation))>>) }

\* c: the result of checkRegisterListsAreTheSame
AcceptedIfSame(c, regs) ==
    IF c.panic THEN Aborted(regs)
    ELSE IF c.err.msg # NoError THEN Rejected(<<c.err>>, regs)
    ELSE Accepted(regs)

\* the returnStatement case after compileFunctionCallArguments, whose result is a
checkReturnRegisters(a, returnRegisters) ==
    IF Len(a.errs) # 0 THEN Rejected(a.errs, a.regs)
    ELSE AcceptedIfSame(checkRegisterListsAreTheSame(returnRegisters, a.registers), a.regs)

\* the result of compiling one statement that is not a loop or a branch
compileStatement(stmt, regs, returnRegisters) ==
    IF stmt.kind = "mutation"
    THEN compileVariableMutation(stmt.hasSource, stmt.source, stmt.destination, regs)
    ELSE IF stmt.kind = "call"
    THEN compileFunctionCall(stmt.destination, stmt.functionName, stmt.functionArgs,
                             regs, SiblingFunctions)
    ELSE IF stmt.kind = "drop"
    THEN AcceptedUnlessError(getRegisterFromVariableName(regs, stmt.variable, TRUE, SomeLocation))
    ELSE \* returnStatement
         checkReturnRegisters(compileFunctionCallArguments(stmt.returnedValues, regs, FALSE),
                              returnRegisters)

(***************************************************************************)
(* The register-state component: compileFunctionDefinition of one function *)
(* whose body is drawn statement by statement (compileBlockToAssembly).    *)
(* scopes holds one frame per enclosing loop / branch body:                *)
(*   kind "while" | "if" | "else",                                         *)
(*   outer (the enclosing block's regState, for an if after its condition).*)
(* innerScopeRegStates of an if is parseRegisterStatesToInnerScope(outer). *)
(* The condition of a while loop is compiled after its body, on outer; it  *)
(* is drawn when the body ends, as is the presence of an else block.       *)
(***************************************************************************)
NoStatement == [kind |-> "none"]

RegIdle ==
    /\ pc = "idle"
    /\ head = [mutatedRegisters |-> <<>>, arguments |-> <<>>]
    /\ registers = EmptyRegisters
    /\ functionReturnValueRegisters = <<>>
    /\ scopes = <<>>
    /\ returned = FALSE
    /\ outcome = "ok"
    /\ errs = <<>>
    /\ statement = NoStatement

RegInit ==
    /\ pc = "head"
    /\ head \in Heads
    /\ registers = EmptyRegisters
    /\ functionReturnValueRegisters = <<>>
    /\ scopes = <<>>
    /\ returned = FALSE
    /\ outcome = "ok"
    /\ errs = <<>>
    /\ statement = NoStatement

InBody == pc = "body" /\ outcome = "ok" /\ ~returned

\* the block being compiled may use break / continue: it is inside a while body
controlFlowKeywordsAllowed == \E i \in 1 .. Len(scopes) : scopes[i].kind = "while"

Fail(result) ==
    /\ outcome' = result.outcome
    /\ errs' = result.errs
    /\ pc' = "done"

\* h: the result of parseFunctionDefinitionRegisters
EnterBody(h) ==
    IF Len(h.errs) # 0
    THEN /\ Fail(Rejected(h.errs, h.regs))
         /\ UNCHANGED <<registers, functionReturnValueRegisters>>
    ELSE /\ registers' = h.regs
         /\ functionReturnValueRegisters' = h.returnRegisters
         /\ pc' = "body"
         /\ UNCHANGED <<outcome, errs>>

ParseHead ==
    /\ pc = "head"
    /\ EnterBody(parseFunctionDefinitionRegisters(head.mutatedRegisters, head.arguments))
    /\ UNCHANGED <<outsideReg, head, scopes, returned, statement>>

\* result: the result of compileStatement(s, ...)
Continue(s, result) ==
    IF result.outcome # "ok"
    THEN /\ Fail(result)
         /\ UNCHANGED <<registers, returned>>
    ELSE /\ registers' = result.regs
         /\ returned' = (s.kind = "return")
         /\ UNCHANGED <<pc, outcome, errs>>

Compile(s) ==
    /\ InBody
    /\ statement' = s
    /\ Continue(s, compileStatement(s, registers, functionReturnValueRegisters))
    /\ UNCHANGED <<outsideReg, head, functionReturnValueRegisters, scopes>>

MutationStatement == \E s \in MutationStatements : Compile(s)
FunctionCallStatement == \E s \in FunctionCallStatements : Compile(s)
DropVariableStatement == \E s \in DropStatements : Compile(s)
ReturnStatement == \E s \in ReturnStatements : Compile(s)

BreakOrContinueStatement ==
    /\ InBody
    /\ \E k \in {"break", "continue"} : statement' = [kind |-> k]
    /\ IF controlFlowKeywordsAllowed
       THEN UNCHANGED <<pc, outcome, errs>>
       ELSE Fail(Rejected(<<codeParsingError("NotValidInThisScope", SomeLocation)>>, registers))
    /\ UNCHANGED <<outsideReg, head, registers, functionReturnValueRegisters, scopes, returned>>

WhileLoopEnter ==
    /\ InBody
    /\ Len(scopes) < MaxDepth
    /\ scopes' = Append(scopes, [kind |-> "while", outer |-> registers])
    /\ statement' = [kind |-> "while"]
    /\ registers' = parseRegisterStatesToInnerScope(registers)
    /\ UNCHANGED <<outsideReg, pc, head, functionReturnValueRegisters, returned, outcome, errs>>

\* ifCheck: the result of conditionToAssembly on the enclosing block's regState
EnterIfBlock(ifCheck) ==
    IF ifCheck.err.msg # NoError
    THEN /\ Fail(Rejected(<<ifCheck.err>>, ifCheck.regs))
         /\ UNCHANGED <<registers, scopes>>
    ELSE /\ scopes' = Append(scopes, [kind |-> "if", outer |-> ifCheck.regs])
         /\ registers' = parseRegisterStatesToInnerScope(ifCheck.regs)
         /\ UNCHANGED <<pc, outcome, errs>>

IfElseEnter ==
    /\ InBody
    /\ Len(scopes) < MaxDepth
    /\ \E c \in Conditions :
        /\ statement' = [kind |-> "if", condition |-> c]
        /\ EnterIfBlock(conditionRegisterEffect(registers, c))
    /\ UNCHANGED <<outsideReg, head, functionReturnValueRegisters, returned>>

\* compileBlockToAssembly takes its regState by value, and registerState holds
\* its registers in an array: what the block does to them stays in the callee.
InnerStateShared(outer, inner) == inner

regStateAfterBlock(outer, inner) ==
    outer

\* c: the result of conditionToAssembly for the loop condition, on the
\* enclosing block's regState
LeaveWhileLoop(c) ==
    IF c.err.msg # NoError
    THEN /\ Fail(Rejected(<<c.err>>, c.regs))
         /\ UNCHANGED <<registers, scopes, returned>>
    ELSE /\ registers' = c.regs
         /\ scopes' = SubSeq(scopes, 1, Len(scopes) - 1)
         /\ returned' = FALSE
         /\ UNCHANGED <<pc, outcome, errs>>

\* the body of the innermost loop / branch has been compiled without error
BlockEnd ==
    /\ pc = "body" /\ outcome = "ok"
    /\ Len(scopes) > 0
    /\ IF scopes[Len(scopes)].kind = "while"
       THEN \E condition \in Conditions :
            /\ statement' = [kind |-> "endwhile", condition |-> condition, inner |-> registers]
            /\ LeaveWhileLoop(conditionRegisterEffect(
                                 regStateAfterBlock(scopes[Len(scopes)].outer, registers),
                                 condition))
       ELSE \/ \* len(statement.elseBlock) > 0: the else block, from innerScopeRegStates
               /\ scopes[Len(scopes)].kind = "if"
               /\ statement' = [kind |-> "else", inner |-> registers]
               /\ registers' = parseRegisterStatesToInnerScope(
                                   regStateAfterBlock(scopes[Len(scopes)].outer, registers))
               /\ scopes' = [scopes EXCEPT ![Len(scopes)].kind = "else"]
               /\ returned' = FALSE
               /\ UNCHANGED <<pc, outcome, errs>>
            \/ \* the if / else statement is finished
               /\ statement' = [kind |-> "endif", inner |-> registers]
               /\ registers' = regStateAfterBlock(scopes[Len(scopes)].outer, registers)
               /\ scopes' = SubSeq(scopes, 1, Len(scopes) - 1)
               /\ returned' = FALSE
               /\ UNCHANGED <<pc, outcome, errs>>
    /\ UNCHANGED <<outsideReg, head, functionReturnValueRegisters>>

FunctionEnd ==
    /\ pc = "body" /\ outcome = "ok"
    /\ Len(scopes) = 0
    /\ pc' = "done"
    /\ statement' = [kind |-> "end"]
    /\ UNCHANGED <<outsideReg, head, registers, functionReturnValueRegisters, scopes, returned,
                   outcome, errs>>

RegNext ==
    \/ ParseHead
    \/ MutationStatement
    \/ FunctionCallStatement
    \/ DropVariableStatement
    \/ ReturnStatement
    \/ BreakOrContinueStatement
    \/ WhileLoopEnter
    \/ IfElseEnter
    \/ BlockEnd
    \/ FunctionEnd


(***************************************************************************)
(* Properties of the register-state component                              *)
(***************************************************************************)
RECURSIVE DroppedByCondition(_)
DroppedByCondition(condition) ==
    IF condition.kind = "comparison"
    THEN {x.name : x \in {y \in {condition.leftValue, condition.rightValue} :
                              y.kind = "variable" /\ y.variableIsDropped}}
    ELSE IF condition.kind = "boolean"
    THEN UNION {DroppedByCondition(condition.conditions[i]) :
                    i \in 1 .. Len(condition.conditions)}
    ELSE {}

DroppedByArguments(arguments) ==
    {arguments[i].value.name :
        i \in {k \in 1 .. Len(arguments) :
                  arguments[k].value.kind = "variable" /\ arguments[k].value.variableIsDropped}}

\* the variables a statement drops, by a drop statement or by a drop modifier
DroppedBy(s) ==
    IF s.kind = "drop" THEN {s.variable}
    ELSE IF s.kind = "mutation"
    THEN IF s.hasSource /\ s.source.kind = "variable" /\ s.source.variableIsDropped
         THEN {s.source.name} ELSE {}
    ELSE IF s.kind = "call" THEN DroppedByArguments(s.functionArgs)
    ELSE IF s.kind = "return" THEN DroppedByArguments(s.returnedValues)
    ELSE IF s.kind \in {"if", "endwhile"} THEN DroppedByCondition(s.condition)
    ELSE {}

\* the result of a statement, or of the condition of an if / while, on regs
ResultOn(s, regs) ==
    IF s.kind \in {"if", "endwhile"}
    THEN AcceptedUnlessError(conditionRegisterEffect(regs, s.condition))
    ELSE compileStatement(s, regs, functionReturnValueRegisters)

Unlocked(regs) ==
    [r \in Registers |-> [regs[r] EXCEPT !.stopVariableFromBeingDropped = FALSE]]

\* The number of loop / branch bodies around the place where s is compiled
\* (the condition of a while loop belongs to the block around the loop).
DepthOf(s) == IF s.kind = "endwhile" THEN Len(scopes) - 1 ELSE Len(scopes)

\* v was bound when the innermost body around s was entered
BoundOutside(s, v) ==
    /\ DepthOf(s) >= 1
    /\ \E r \in Registers : scopes[DepthOf(s)].outer[r].variableName = v

\* the register state s is compiled on
RegistersFor(s) == IF s.kind = "endwhile" THEN scopes[Len(scopes)].outer ELSE registers

NamesRegister(s, r) ==
    \/ \E i \in 1 .. Len(s.destination) : s.destination[i].register = r
    \/ /\ s.kind = "call"
       /\ \E i \in 1 .. Len(s.functionArgs) : s.functionArgs[i].register = r

\* C6: while a register is bound to a variable, a mutation statement or a
\* function-call statement that names the register directly (as destination
\* or as argument register) is rejected with a returned error.  (A call that
\* drops the variable in one of its arguments is left out: the register is
\* free by the time it is named.)
C6_BoundRegisterNamedIsReturnedError ==
    [][ \A r \in Registers :
          ( /\ pc = "body" /\ outcome = "ok"
            /\ statement'.kind \in {"mutation", "call"}
            /\ registers[r].variableName # ""
            /\ NamesRegister(statement', r)
            /\ registers[r].variableName \notin DroppedBy(statement') )
          => outcome' = "error"
    ]_vars

\* the statement  r0 = sysExit(r5 = drop v)
ExitDropping(v) ==
    setToFunctionCallValue(<<variableMutationDestination(0, "", 0)>>, "sysExit",
        <<registerAndRawValueAndLocation(5, variableValue(v, TRUE, 0, SomeLocation))>>)

\* C7: the arguments of a function call are processed before its
\* destinations: with v bound to r0 (droppable: not locked, r0 mutable) and
\* r5 free and mutable, r0 = sysExit(r5 = drop v) compiles without error and
\* leaves r0 unbound.
C7_ArgumentsBeforeDestinations ==
    [][ \A v \in Names :
          ( /\ pc = "body" /\ outcome = "ok"
            /\ statement' = ExitDropping(v)
            /\ registers[0].variableName = v
            /\ ~registers[0].stopVariableFromBeingDropped
            /\ registers[0].registerWasDefinedAsMutable
            /\ registers[5].variableName = ""
            /\ registers[5].registerWasDefinedAsMutable )
          => /\ outcome' = "ok"
             /\ registers'[0].variableName = ""
             /\ \A r \in Registers \ {0} : registers'[r] = registers[r]
    ]_vars

\* C7 witness: such a call has been compiled: its argument dropped a variable
\* (which r5, named by the argument, cannot have held) and r0 is free.
C7_Witness ==
    /\ pc = "body" /\ outcome = "ok"
    /\ \E v \in Names : statement = ExitDropping(v)
    /\ registers[0].variableName = ""
    /\ head.arguments # <<>>

\* The destination names only a variable, and no register is bound to it.
UnboundVariableOnly(destination, regs) ==
    /\ destination.register = UnknownRegister
    /\ destination.name # ""
    /\ \A r \in Registers : regs[r].variableName # destination.name

\* The destination names a register together with a variable that is bound.
RegisterWithBoundVariable(destination, regs) ==
    /\ destination.register # UnknownRegister
    /\ destination.name # ""
    /\ \E r \in Registers : regs[r].variableName = destination.name

\* C11: a mutation statement whose destination names only a variable that is
\* not bound, or a register together with a variable that is bound (to that
\* register or to another), is rejected with returned errors, the first of
\* them at the destination; the compiler does not abort.
C11_InvalidDestinationIsReturnedError ==
    [][ ( /\ pc = "body" /\ outcome = "ok"
          /\ statement'.kind = "mutation"
          /\ Len(statement'.destination) = 1
          /\ \/ UnboundVariableOnly(statement'.destination[1], registers)
             \/ RegisterWithBoundVariable(statement'.destination[1], registers) )
        => /\ outcome' = "error"
           /\ errs' # <<>>
           /\ errs'[1].textLocation = statement'.destination[1].textLocation
    ]_vars

\* The registers of the values of a call or of a return statement, when the
\* values themselves are compiled without an error; a: the result of
\* compileFunctionCallArguments.
GivenRegisters(a) == [i \in 1 .. Len(a.registers) |-> a.registers[i].register]

DiffersFrom(a, expected) == a.errs = <<>> /\ GivenRegisters(a) # expected

\* The statement s, compiled on regs, is a call of a known function or a
\* return whose registers differ from the registers expected.
RegisterListMismatch(s, regs) ==
    \/ /\ s.kind = "return"
       /\ DiffersFrom(compileFunctionCallArguments(s.returnedValues, regs, FALSE),
                      functionReturnValueRegisters)
    \/ /\ s.kind = "call"
       /\ s.functionName \in DOMAIN SiblingFunctions \cup BuiltinFunctions
       /\ DiffersFrom(compileFunctionCallArguments(s.functionArgs, regs, TRUE),
                      functionExpectedArgRegisters(s.functionName, SiblingFunctions))

\* C12: a function call whose argument registers, or a return statement
\* whose value registers, differ from the expected list in length or at some
\* position is rejected with a returned error.
C12_RegisterListMismatchIsReturnedError ==
    [][ ( /\ pc = "body" /\ outcome = "ok"
          /\ statement'.kind \in {"call", "return"}
          /\ RegisterListMismatch(statement', registers) )
        => outcome' = "error"
    ]_vars

\* No variable name is bound to two registers of regs.
BoundOnce(regs) ==
    \A r1, r2 \in Registers :
        (r1 # r2 /\ regs[r1].variableName # "") => regs[r1].variableName # regs[r2].variableName

\* C14: while the statements of a function are accepted, no variable name is
\* bound to more than one register, in the register state of the block being
\* compiled and in those of the blocks around it.
C14_VariableBoundToOneRegister ==
    outcome = "ok" =>
        /\ BoundOnce(registers)
        /\ \A i \in 1 .. Len(scopes) : BoundOnce(scopes[i].outer)

\* C14 witness: inside a loop or branch body, after an accepted statement
\* that bound a new variable while another variable was bound already.
C14_Witness ==
    /\ pc = "body" /\ outcome = "ok"
    /\ Len(scopes) >= 1
    /\ statement.kind \in {"mutation", "call"}
    /\ \E r1, r2 \in Registers :
          /\ r1 # r2
          /\ registers[r1].variableName # ""
          /\ registers[r2].variableName # ""
          /\ \E i \in 1 .. Len(statement.destination) :
                /\ statement.destination[i].register = r1
                /\ statement.destination[i].name = registers[r1].variableName

\* Register r is bound to the parameter the head of the function binds to it.
BoundToParameter(regs, r) ==
    \E i \in 1 .. Len(head.arguments) :
        /\ head.arguments[i].register = r
        /\ head.arguments[i].name = regs[r].variableName

\* C15 as stated: while the statements of a function are accepted, every
\* register bound to a variable is in the mutated-register list of the
\* function, the registers of the parameters included.
C15_BoundRegisterIsMutable ==
    (pc = "body" /\ outcome = "ok") =>
        \A r \in Registers :
            registers[r].variableName # "" => registers[r].registerWasDefinedAsMutable

\* C15 amended: while the statements of a function are accepted, every
\* register bound to a variable is in the mutated-register list of the
\* function, or is still bound to the parameter the head bound to it.
C15_BoundRegisterIsMutableOrParameter ==
    (pc = "body" /\ outcome = "ok") =>
        \A r \in Registers :
            registers[r].variableName # ""
            => registers[r].registerWasDefinedAsMutable \/ BoundToParameter(registers, r)

\* C15 witness: a statement bound a variable to a register of the mutated
\* list while a parameter is bound to a register outside that list.
C15_Witness ==
    /\ pc = "body" /\ outcome = "ok"
    /\ statement.kind \in {"mutation", "call"}
    /\ \E r \in Registers :
          /\ registers[r].variableName # ""
          /\ registers[r].registerWasDefinedAsMutable
          /\ ~BoundToParameter(registers, r)
          /\ \E i \in 1 .. Len(statement.destination) : statement.destination[i].register = r
    /\ \E r \in Registers :
          registers[r].variableName # "" /\ ~registers[r].registerWasDefinedAsMutable

\* The register a destination stands for on regs: the register it names, or
\* the register its variable is bound to.
DestinationRegister(destination, regs) ==
    IF destination.register # UnknownRegister THEN destination.register
    ELSE FindRegister(regs, destination.name)

CalleeMutatedRegisters(functionName) ==
    LET expected == functionExpectedMutatedRegisters(functionName, SiblingFunctions)
    IN  {expected[i].register : i \in 1 .. Len(expected)}

\* The registers the assembly of statement s would write: the destinations
\* of a mutation; the registers named by the arguments of a call, its
\* destinations and the registers its callee mutates; the registers named by
\* the values of a return.
WrittenRegisters(s, regs) ==
    ( IF s.kind = "mutation"
      THEN {DestinationRegister(s.destination[i], regs) : i \in 1 .. Len(s.destination)}
      ELSE IF s.kind = "call"
      THEN {s.functionArgs[i].register : i \in 1 .. Len(s.functionArgs)}
           \cup {DestinationRegister(s.destination[i], regs) : i \in 1 .. Len(s.destination)}
           \cup (IF s.functionName \in DOMAIN SiblingFunctions \cup BuiltinFunctions
                 THEN CalleeMutatedRegisters(s.functionName)
                 ELSE {})
      ELSE IF s.kind = "return"
      THEN {s.returnedValues[i].register : i \in 1 .. Len(s.returnedValues)}
      ELSE {} )
    \ {UnknownRegister}

WritesUndeclaredRegister(s, regs) ==
    \E r \in WrittenRegisters(s, regs) : ~regs[r].registerWasDefinedAsMutable

\* C16: a mutation, a function call or a return whose assembly would write a
\* register that is not in the mutated-register list of the function is not
\* accepted: an error is returned.
C16_UndeclaredRegisterIsNotWritten ==
    [][ ( /\ pc = "body" /\ outcome = "ok"
          /\ statement'.kind \in {"mutation", "call", "return"}
          /\ WritesUndeclaredRegister(statement', registers) )
        => outcome' = "error"
    ]_vars

\* The register state the statements after the innermost body are compiled on,
\* from the state the body was entered with: after a loop the condition of the
\* loop has been compiled on it, and the else block starts from its inner
\* scope.
stateAfterBody(s, entered) ==
    IF s.kind = "endwhile" THEN conditionRegisterEffect(entered, s.condition).regs
    ELSE IF s.kind = "else" THEN parseRegisterStatesToInnerScope(entered)
    ELSE entered

NoDropLock(regs) == \A r \in Registers : ~regs[r].stopVariableFromBeingDropped

\* C24: when the body of a while loop or a branch of an if / else has been
\* compiled, the statements that follow (and the else block after the if
\* block) are compiled on the register state the body was entered with: the
\* bindings and drops of the body are discarded, and no drop lock that was set
\* for a body is left in the state of the function's own block.
C24_BodyLeavesOuterStateAlone ==
    [][ ( /\ pc = "body" /\ outcome = "ok"
          /\ Len(scopes) > 0
          /\ statement'.kind \in {"endwhile", "else", "endif"}
          /\ outcome' = "ok" )
        => /\ registers' = stateAfterBody(statement', scopes[Len(scopes)].outer)
           /\ Len(scopes') = 0 => NoDropLock(registers')
      ]_vars

\* C24 witness: a branch that bound a variable of its own, and that was
\* compiled with a drop lock on a variable of the outer block, has ended; the
\* outer block has neither the binding nor the lock.
C24_Witness ==
    /\ pc = "body" /\ outcome = "ok"
    /\ statement.kind \in {"endif", "endwhile"}
    /\ Len(scopes) = 0
    /\ \E r \in Registers :
          statement.inner[r].variableName # "" /\ registers[r].variableName = ""
    /\ \E r \in Registers :
          /\ registers[r].variableName # ""
          /\ statement.inner[r].stopVariableFromBeingDropped
          /\ ~registers[r].stopVariableFromBeingDropped

\* The variable names a list of values, a list of destinations, a condition
\* or a statement uses.  A destination that names a register binds its name;
\* one without a register mutates the variable of that name.
NamesOfValues(arguments) ==
    {arguments[i].value.name :
        i \in {k \in 1 .. Len(arguments) : arguments[k].value.kind = "variable"}}

NamesOfDestinations(destination) ==
    {destination[i].name :
        i \in {k \in 1 .. Len(destination) :
                  destination[k].register = UnknownRegister /\ destination[k].name # ""}}

RECURSIVE UsedByCondition(_)
UsedByCondition(condition) ==
    IF condition.kind = "comparison"
    THEN {x.name : x \in {y \in {condition.leftValue, condition.rightValue} :
                              y.kind = "variable"}}
    ELSE IF condition.kind = "boolean"
    THEN UNION {UsedByCondition(condition.conditions[i]) : i \in 1 .. Len(condition.conditions)}
    ELSE {}

UsedBy(s) ==
    IF s.kind = "drop" THEN {s.variable}
    ELSE IF s.kind = "mutation"
    THEN NamesOfDestinations(s.destination)
         \cup (IF s.hasSource /\ s.source.kind = "variable" THEN {s.source.name} ELSE {})
    ELSE IF s.kind = "call" THEN NamesOfDestinations(s.destination) \cup NamesOfValues(s.functionArgs)
    ELSE IF s.kind = "return" THEN NamesOfValues(s.returnedValues)
    ELSE IF s.kind \in {"if", "endwhile"} THEN UsedByCondition(s.condition)
    ELSE {}

BoundIn(regs) == {regs[r].variableName : r \in Registers} \ {""}

\* The names a mutation binds where its destinations stand, before its source.
BoundByDestinations(s) ==
    IF s.kind # "mutation" THEN {}
    ELSE {s.destination[i].name :
            i \in {k \in 1 .. Len(s.destination) :
                      s.destination[k].register # UnknownRegister /\ s.destination[k].name # ""}}

\* C25: in an accepted program every use of a variable name stands, in source
\* order, after the place that bound the name and not after a place that
\* dropped it.  A statement, or the condition of an if, is compiled on the
\* state its predecessors in the source have left, so the names it uses are
\* bound there (or by the destinations of the statement itself, which stand
\* before its source); the condition of a while loop stands before the loop body in
\* the source, so no statement of the body uses a name that the condition
\* drops.
C25_UseLiesBetweenBindAndDrop ==
    [][ ( /\ pc = "body" /\ outcome = "ok"
          /\ statement'.kind \in {"drop", "mutation", "call", "return", "if", "endwhile"}
          /\ outcome' = "ok" )
        => /\ UsedBy(statement')
                  \subseteq BoundIn(RegistersFor(statement')) \cup BoundByDestinations(statement')
           /\ ( /\ statement'.kind = "endwhile"
                /\ statement.kind \in {"drop", "mutation", "call", "return"} )
              => UsedBy(statement) \cap DroppedBy(statement') = {}
      ]_vars

(***************************************************************************)
(* Linking component: compileAssembly                                      *)
(*                                                                         *)
(* Function bodies are first lowered to text in which a call of a          *)
(* user-defined function is the placeholder /NAME/ and a return is the     *)
(* placeholder \.  transformFunctionDefinitionIntoValidAssembly then        *)
(* replaces the placeholders, and compileAssembly concatenates the texts.   *)
(* Texts and function names are sequences of one-character strings; text    *)
(* positions are counted from 0 as in the source.                           *)
(***************************************************************************)
MaxBodyLen == 2      \* statements in the body of main, a trailing return not counted
MaxCompileDepth == 4 \* function definitions being compiled inside one another

MainName == <<"m", "a", "i", "n">>
ShortName == <<"f">>
\* A function name of 26 characters: as long as the text that replaces its call.
LongName == <<"p", "o", "i", "n", "t", "I", "s", "I", "n", "s", "i", "d", "e", "T", "h", "e",
              "S", "c", "r", "e", "e", "n", "A", "r", "e", "a">>

\* The contents of the character literals 'a', '/' and ''' as lexCode keeps them.
CharacterValues == {<<"a">>, <<"/">>, <<"'">>}

callOf(functionName) == [kind |-> "call", functionName |-> functionName, value |-> <<>>]
moveOf(value) == [kind |-> "mutation", functionName |-> <<>>, value |-> value]
returnOf == [kind |-> "return", functionName |-> <<>>, value |-> <<>>]
dropOf == [kind |-> "drop", functionName |-> <<>>, value |-> <<>>]
\* The statement `while true { }`.
whileOf == [kind |-> "while", functionName |-> <<>>, value |-> <<>>]

\* createNewJumpLabel prints the counter with fmt.Sprint.
Digits == <<"0", "1", "2", "3", "4", "5", "6", "7", "8", "9">>

RECURSIVE Itoa(_)
Itoa(n) == IF n < 10 THEN <<Digits[n + 1]>> ELSE Itoa(n \div 10) \o <<Digits[(n % 10) + 1]>>

jumpLabelNumbered(number) == <<"j", "u", "m", "p", "L", "a", "b", "e", "l">> \o Itoa(number)

\* The return code of main handed over by compileAssembly.
MainReturnAssembly ==
    <<"m", "o", "v", " ", "$", "6", "0", ",", " ", "%", "r", "a", "x", "\n",
      "m", "o", "v", " ", "$", "0", ",", " ", "%", "r", "d", "i", "\n",
      "s", "y", "s", "c", "a", "l", "l">>

\* convertValueToAssembly for a character value, inside compileVariableMutation
\* with the instruction mov and the destination r0 (%rax).
characterValueAssembly(value) == <<"$", "'">> \o value \o <<"'">>

mutationAssembly(value) ==
    <<"\n", "m", "o", "v", " ">> \o characterValueAssembly(value) \o <<",", " ", "%", "r", "a", "x">>

\* compileFunctionCall for a user-defined function without arguments.
functionCallCode(functionName) == <<"\n", "/">> \o functionName \o <<"/">>

returnCode == <<"\n", "\\">>

\* case whileLoop for `while true { }`: three jump labels are created, for the
\* loop body, the loop condition and the loop end; the condition is a
\* booleanValue that jumps to the loop body.
whileLoopAssembly(jumps) ==
    LET loopBodyJumpLabel == jumpLabelNumbered(jumps + 1)
        loopConditionJumpLabel == jumpLabelNumbered(jumps + 2)
        loopEndJumpLabel == jumpLabelNumbered(jumps + 3)
    IN  <<"\n", "j", "m", "p", " ">> \o loopConditionJumpLabel
            \o <<"\n">> \o loopBodyJumpLabel \o <<":">>
            \o <<"\n">> \o loopConditionJumpLabel \o <<":">>
            \o <<"\n", "j", "m", "p", " ">> \o loopBodyJumpLabel
            \o <<"\n">> \o loopEndJumpLabel \o <<":">>

compiledFunction(references, jumpLabel, assembly) ==
    [references |-> references, jumpLabel |-> jumpLabel, assembly |-> assembly]

\* Go's map read: the zero value for a key the map does not hold.
compiledFunctionOf(functions, functionName) ==
    IF functionName \in DOMAIN functions THEN functions[functionName]
    ELSE compiledFunction(0, <<>>, <<>>)

setCompiledFunction(functions, functionName, entry) ==
    [n \in (DOMAIN functions) \cup {functionName} |->
        IF n = functionName THEN entry ELSE functions[n]]

\* The end of compileFunctionDefinition: a return is added to a body that
\* does not end with one.
withReturnAtEnd(assembly) ==
    IF assembly[Len(assembly)] # "\\" THEN assembly \o returnCode ELSE assembly

\* text[:startIndex] + replacement + text[index+1:]
replaceSpan(text, startIndex, index, replacement) ==
    SubSeq(text, 1, startIndex) \o replacement \o SubSeq(text, index + 2, Len(text))

\* The position of the next / at or after index, or Len(text) when the scan
\* runs off the end of the text.
RECURSIVE closingSlash(_, _)
closingSlash(text, index) ==
    IF index >= Len(text) THEN Len(text)
    ELSE IF text[index + 1] = "/" THEN index
    ELSE closingSlash(text, index + 1)

\* getAssemblyForFunctionCall: what it returns, and the return code it hands
\* to the callee.
callAssembly(references, calleeJumpLabel, callerJumpLabel) ==
    IF references = 1
    THEN <<"j", "m", "p", " ">> \o calleeJumpLabel \o <<"\n">> \o callerJumpLabel \o <<":">>
    ELSE <<"c", "a", "l", "l", " ">> \o calleeJumpLabel

calleeReturnAssembly(references, callerJumpLabel) ==
    IF references = 1 THEN <<"j", "m", "p", " ">> \o callerJumpLabel ELSE <<"r", "e", "t">>

\* ---- the programs compiled ----
\* main calls f and pointIsInsideTheScreenArea and assigns character literals;
\* f may call pointIsInsideTheScreenArea or itself, and
\* pointIsInsideTheScreenArea may call f.
MainStatements ==
    {callOf(ShortName), callOf(LongName)} \cup {moveOf(value) : value \in CharacterValues}

\* The bodies of main; two of them emit no instruction: the empty body and
\* the body of one drop statement.
MainBodies ==
    LET statementLists == UNION {[1..n -> MainStatements] : n \in 1..MaxBodyLen}
    IN  statementLists \cup {Append(body, returnOf) : body \in statementLists}
            \cup {<<>>, <<dropOf>>, <<callOf(ShortName), whileOf>>}

ShortBodies ==
    { <<moveOf(<<"a">>)>>,
      <<whileOf>>,
      <<whileOf, callOf(LongName)>>,
      <<moveOf(<<"a">>), returnOf>>,
      <<callOf(LongName)>>,
      <<callOf(LongName), moveOf(<<"a">>)>>,
      <<callOf(ShortName)>> }

LongBodies == { <<moveOf(<<"a">>)>>, <<callOf(ShortName)>>, <<>> }

FunctionNames == {MainName, ShortName, LongName}

Programs ==
    { [functionName \in FunctionNames |->
          IF functionName = MainName THEN mainBody
          ELSE IF functionName = ShortName THEN shortBody ELSE longBody] :
      mainBody \in MainBodies, shortBody \in ShortBodies, longBody \in LongBodies }

NoCompiledFunctions == [functionName \in {} |-> compiledFunction(0, <<>>, <<>>)]

\* ---- the state before compileAssembly ----
LinkIdle ==
    /\ globalFunctions = [functionName \in {} |-> <<>>]
    /\ phase = "idle"
    /\ compileStack = <<>>
    /\ compiledFunctions = NoCompiledFunctions
    /\ numberOfJumps = 0
    /\ linkStack = <<>>
    /\ out = <<>>
    /\ previousOut = <<>>
    /\ run = 1

LinkInit ==
    /\ globalFunctions \in Programs
    /\ phase = "start"
    /\ compileStack = <<>>
    /\ compiledFunctions = NoCompiledFunctions
    /\ numberOfJumps = 0
    /\ linkStack = <<>>
    /\ out = <<>>
    /\ previousOut = <<>>
    /\ run = 1
    /\ RegIdle

\* ---- compileFunctionDefinition and compileBlockToAssembly ----
compiling == compileStack[Len(compileStack)]

compiledBody == globalFunctions[compiling.functionName]

AtStatement(kind) ==
    /\ phase = "compile"
    /\ compiling.index <= Len(compiledBody)
    /\ compiledBody[compiling.index].kind = kind

\* The head of compileFunctionDefinition: the entry of the function is reset.
enterFunctionDefinition(functionName) ==
    /\ compiledFunctions' =
           setCompiledFunction(compiledFunctions, functionName, compiledFunction(0, <<>>, <<>>))
    /\ compileStack' =
           Append(compileStack, [functionName |-> functionName, index |-> 1, assembly |-> <<>>])

appendAssembly(assembly, index) ==
    compileStack' = [compileStack EXCEPT ![Len(compileStack)] =
                        [@ EXCEPT !.assembly = @ \o assembly, !.index = index]]

CompileMain ==
    /\ phase = "start"
    /\ phase' = "compile"
    /\ enterFunctionDefinition(MainName)
    /\ UNCHANGED <<outsideLink, globalFunctions, numberOfJumps, linkStack, out, previousOut, run>>

CompileMutation ==
    /\ AtStatement("mutation")
    /\ appendAssembly(mutationAssembly(compiledBody[compiling.index].value), compiling.index + 1)
    /\ UNCHANGED <<outsideLink, globalFunctions, phase, compiledFunctions, numberOfJumps, linkStack, out,
                   previousOut, run>>

\* case dropVariableStatement: the register state changes, no assembly is
\* added.
CompileDrop ==
    /\ AtStatement("drop")
    /\ appendAssembly(<<>>, compiling.index + 1)
    /\ UNCHANGED <<outsideLink, globalFunctions, phase, compiledFunctions, numberOfJumps, linkStack, out,
                   previousOut, run>>

\* case whileLoop: the jump labels of the loop are taken from the counter the
\* linking takes its labels from.
CompileWhileLoop ==
    /\ AtStatement("while")
    /\ appendAssembly(whileLoopAssembly(numberOfJumps), compiling.index + 1)
    /\ numberOfJumps' = numberOfJumps + 3
    /\ UNCHANGED <<outsideLink, globalFunctions, phase, compiledFunctions, linkStack, out, previousOut,
                   run>>

\* A return statement is the last statement of its block.
CompileReturn ==
    /\ AtStatement("return")
    /\ compiling.index = Len(compiledBody)
    /\ appendAssembly(returnCode, compiling.index + 1)
    /\ UNCHANGED <<outsideLink, globalFunctions, phase, compiledFunctions, numberOfJumps, linkStack, out,
                   previousOut, run>>

\* compileFunctionCall of a user-defined function: the callee is compiled at
\* this call site, whether or not it has been compiled before or is being
\* compiled.  The model follows the calls MaxCompileDepth deep.
CompileFunctionCall ==
    /\ AtStatement("call")
    /\ Len(compileStack) < MaxCompileDepth
    /\ compiledBody[compiling.index].functionName \in DOMAIN globalFunctions
    /\ enterFunctionDefinition(compiledBody[compiling.index].functionName)
    /\ UNCHANGED <<outsideLink, globalFunctions, phase, numberOfJumps, linkStack, out, previousOut, run>>

\* The end of compileFunctionDefinition, and for a callee the rest of
\* compileFunctionCall in its caller: references++ and the call placeholder.
storeDefinition(functionName, assembly) ==
    setCompiledFunction(compiledFunctions, functionName,
                        compiledFunction(0, <<>>, withReturnAtEnd(assembly)))

referenced(functions, functionName) ==
    [functions EXCEPT ![functionName].references = @ + 1]

FinishFunctionDefinition ==
    /\ phase = "compile"
    /\ compiling.index > Len(compiledBody)
    /\ compiling.assembly # <<>>
    /\ IF Len(compileStack) = 1
       THEN /\ compiledFunctions' = storeDefinition(compiling.functionName, compiling.assembly)
            /\ compileStack' = <<>>
            /\ phase' = "compiled"
       ELSE /\ compiledFunctions' =
                   referenced(storeDefinition(compiling.functionName, compiling.assembly),
                              compiling.functionName)
            /\ compileStack' =
                   [SubSeq(compileStack, 1, Len(compileStack) - 1)
                       EXCEPT ![Len(compileStack) - 1] =
                           [@ EXCEPT !.assembly = @ \o functionCallCode(compiling.functionName),
                                     !.index = @ + 1]]
            /\ phase' = phase
    /\ UNCHANGED <<outsideLink, globalFunctions, numberOfJumps, linkStack, out, previousOut, run>>

\* assert(notEq(assembly, "")) after compileBlockToAssembly: the body has
\* added no assembly.
EmptyAssemblyPanics ==
    /\ phase = "compile"
    /\ compiling.index > Len(compiledBody)
    /\ compiling.assembly = <<>>
    /\ phase' = "panic"
    /\ UNCHANGED <<outsideLink, globalFunctions, compileStack, compiledFunctions, numberOfJumps, linkStack,
                   out, previousOut, run>>

\* ---- transformFunctionDefinitionIntoValidAssembly ----
transforming == linkStack[Len(linkStack)]

transformedText == transforming.functionDefinition.assembly

InLoop ==
    /\ phase = "link"
    /\ transforming.index < Len(transformedText)

currentCharacter == transformedText[transforming.index + 1]

\* The frame of a call of the function that got past the early return: the
\* jump label is set and put in front of the assembly; the loop starts.
transformFrame(functionName, returnAssembly, jumpLabel) ==
    [functionName |-> functionName,
     returnAssembly |-> returnAssembly,
     functionDefinition |->
        compiledFunction(compiledFunctionOf(compiledFunctions, functionName).references,
                         jumpLabel,
                         <<"\n">> \o jumpLabel \o <<":">>
                             \o compiledFunctionOf(compiledFunctions, functionName).assembly),
     index |-> 0,
     characterIsSingleQuoteString |-> FALSE,
     startIndex |-> 0,
     references |-> 0,
     callerJumpLabel |-> <<>>]

withJumpLabel(functionName, jumpLabel) ==
    setCompiledFunction(compiledFunctions, functionName,
        [compiledFunctionOf(compiledFunctions, functionName) EXCEPT !.jumpLabel = jumpLabel])

\* The early return of transformFunctionDefinitionIntoValidAssembly: the
\* function has its jump label already.
GuardIgnored(functionDefinition) == FALSE

alreadyTransformed(functionDefinition) ==
    functionDefinition.jumpLabel # <<>>

TransformMain ==
    /\ phase = "compiled"
    /\ phase' = "link"
    /\ compiledFunctions' = withJumpLabel(MainName, <<"_", "s", "t", "a", "r", "t">>)
    /\ linkStack' = <<transformFrame(MainName, MainReturnAssembly, <<"_", "s", "t", "a", "r", "t">>)>>
    /\ UNCHANGED <<outsideLink, globalFunctions, compileStack, numberOfJumps, out, previousOut, run>>

advance(frame) == [frame EXCEPT !.index = @ + 1]

ToggleQuote ==
    /\ InLoop
    /\ currentCharacter = "'"
    /\ linkStack' = [linkStack EXCEPT ![Len(linkStack)] =
                        advance([@ EXCEPT !.characterIsSingleQuoteString = ~@])]
    /\ UNCHANGED <<outsideLink, globalFunctions, phase, compileStack, compiledFunctions, numberOfJumps, out,
                   previousOut, run>>

SkipCharacter ==
    /\ InLoop
    /\ currentCharacter # "'"
    /\ transforming.characterIsSingleQuoteString \/ currentCharacter \notin {"/", "\\"}
    /\ linkStack' = [linkStack EXCEPT ![Len(linkStack)] = advance(@)]
    /\ UNCHANGED <<outsideLink, globalFunctions, phase, compileStack, compiledFunctions, numberOfJumps, out,
                   previousOut, run>>

\* case '\\': the placeholder is replaced; the loop goes on at the second
\* currentCharacter of the replacement.
ReplaceReturn ==
    /\ InLoop
    /\ ~transforming.characterIsSingleQuoteString
    /\ currentCharacter = "\\"
    /\ linkStack' = [linkStack EXCEPT ![Len(linkStack)] =
                        advance([@ EXCEPT !.functionDefinition.assembly =
                                    replaceSpan(@, transforming.index, transforming.index,
                                                transforming.returnAssembly)])]
    /\ UNCHANGED <<outsideLink, globalFunctions, phase, compileStack, compiledFunctions, numberOfJumps, out,
                   previousOut, run>>

\* case '/': the scan for the closing slash, and the name between the two.
AtCall ==
    /\ InLoop
    /\ ~transforming.characterIsSingleQuoteString
    /\ currentCharacter = "/"

closingIndex == closingSlash(transformedText, transforming.index + 1)

calledName == SubSeq(transformedText, transforming.index + 2, closingIndex)

called == compiledFunctionOf(compiledFunctions, calledName)

\* getAssemblyForFunctionCall creates the caller's jump label when the callee
\* has one reference.
CallerLabelNotCounted == numberOfJumps

jumpsAfterCallerLabel ==
    IF called.references = 1 THEN numberOfJumps + 1 ELSE numberOfJumps

newCallerJumpLabel ==
    IF called.references = 1 THEN jumpLabelNumbered(numberOfJumps + 1) ELSE <<>>

\* The assertion of the scan fails at the end of the text, or
\* getAssemblyForFunctionCall panics for a name without references.
CallPanics ==
    /\ AtCall
    /\ closingIndex >= Len(transformedText) \/ called.references <= 0
    /\ phase' = "panic"
    /\ UNCHANGED <<outsideLink, globalFunctions, compileStack, compiledFunctions, numberOfJumps, linkStack,
                   out, previousOut, run>>

\* The callee has its jump label already: its transformation returns at once,
\* and the placeholder is replaced.  The loop goes on after the position the
\* closing slash had.
CallOfTransformedFunction ==
    /\ AtCall
    /\ closingIndex < Len(transformedText)
    /\ called.references > 0
    /\ alreadyTransformed(called)
    /\ numberOfJumps' = jumpsAfterCallerLabel
    /\ linkStack' = [linkStack EXCEPT ![Len(linkStack)] =
                        [@ EXCEPT !.functionDefinition.assembly =
                                      replaceSpan(@, transforming.index, closingIndex,
                                                  callAssembly(called.references, called.jumpLabel,
                                                               newCallerJumpLabel)),
                                  !.index = closingIndex + 1]]
    /\ UNCHANGED <<outsideLink, globalFunctions, phase, compileStack, compiledFunctions, out, previousOut, run>>

\* The callee is transformed first, with the return code of this call.
CallOfUntransformedFunction ==
    /\ AtCall
    /\ closingIndex < Len(transformedText)
    /\ called.references > 0
    /\ ~alreadyTransformed(called)
    /\ numberOfJumps' = jumpsAfterCallerLabel + 1
    /\ compiledFunctions' = withJumpLabel(calledName, jumpLabelNumbered(jumpsAfterCallerLabel + 1))
    /\ linkStack' =
          Append([linkStack EXCEPT ![Len(linkStack)] =
                     [@ EXCEPT !.startIndex = transforming.index,
                               !.index = closingIndex,
                               !.references = called.references,
                               !.callerJumpLabel = newCallerJumpLabel]],
                 transformFrame(calledName,
                                calleeReturnAssembly(called.references, newCallerJumpLabel),
                                jumpLabelNumbered(jumpsAfterCallerLabel + 1)))
    /\ UNCHANGED <<outsideLink, globalFunctions, phase, compileStack, out, previousOut, run>>

\* The loop is over: the function is stored.  In the caller the placeholder is
\* replaced by what getAssemblyForFunctionCall returns.
resumeCaller(caller, calleeJumpLabel) ==
    [caller EXCEPT !.functionDefinition.assembly =
                       replaceSpan(@, caller.startIndex, caller.index,
                                   callAssembly(caller.references, calleeJumpLabel,
                                                caller.callerJumpLabel)),
                   !.index = @ + 1]

FinishTransform ==
    /\ phase = "link"
    /\ transforming.index >= Len(transformedText)
    /\ compiledFunctions' = setCompiledFunction(compiledFunctions, transforming.functionName,
                                                transforming.functionDefinition)
    /\ IF Len(linkStack) = 1
       THEN /\ linkStack' = <<>>
            /\ phase' = "linked"
       ELSE /\ linkStack' =
                  [SubSeq(linkStack, 1, Len(linkStack) - 1)
                      EXCEPT ![Len(linkStack) - 1] =
                          resumeCaller(@, transforming.functionDefinition.jumpLabel)]
            /\ phase' = phase
    /\ UNCHANGED <<outsideLink, globalFunctions, compileStack, numberOfJumps, out, previousOut, run>>

\* ---- the end of compileAssembly ----
\* `for _, function := range state.compiledFunctions`: Go leaves the order in
\* which a map is iterated unspecified, and it differs from run to run.
IterationOrders(functions) ==
    { order \in [1..Cardinality(DOMAIN functions) -> DOMAIN functions] :
        \A functionName \in DOMAIN functions : \E i \in DOMAIN order : order[i] = functionName }

RECURSIVE concatenated(_, _, _)
concatenated(functions, order, i) ==
    IF i > Len(order) THEN <<>>
    ELSE functions[order[i]].assembly \o concatenated(functions, order, i + 1)

Concatenate ==
    /\ phase = "linked"
    /\ \E order \in IterationOrders(compiledFunctions) :
          out' = <<".", "g", "l", "o", "b", "a", "l", " ">>
                   \o compiledFunctions[MainName].jumpLabel
                   \o <<"\n", ".", "t", "e", "x", "t">>
                   \o concatenated(compiledFunctions, order, 1)
                   \o <<"\n">>
    /\ phase' = "done"
    /\ UNCHANGED <<outsideLink, globalFunctions, compileStack, compiledFunctions, numberOfJumps, linkStack,
                   previousOut, run>>

\* compileAssembly is run again on the same AST, with a new compilerState.
RunAgain ==
    /\ phase = "done"
    /\ run = 1
    /\ run' = 2
    /\ previousOut' = out
    /\ phase' = "start"
    /\ compiledFunctions' = NoCompiledFunctions
    /\ numberOfJumps' = 0
    /\ out' = <<>>
    /\ UNCHANGED <<outsideLink, globalFunctions, compileStack, linkStack>>

LinkNext ==
    \/ CompileMain
    \/ CompileMutation
    \/ CompileDrop
    \/ CompileWhileLoop
    \/ CompileReturn
    \/ CompileFunctionCall
    \/ FinishFunctionDefinition
    \/ EmptyAssemblyPanics
    \/ TransformMain
    \/ ToggleQuote
    \/ SkipCharacter
    \/ ReplaceReturn
    \/ CallPanics
    \/ CallOfTransformedFunction
    \/ CallOfUntransformedFunction
    \/ FinishTransform
    \/ Concatenate
    \/ RunAgain

(***************************************************************************)
(* Properties of the linking component                                     *)
(***************************************************************************)
Occurs(pattern, text) ==
    \E i \in 1 .. Len(text) - Len(pattern) + 1 :
        SubSeq(text, i, i + Len(pattern) - 1) = pattern

\* The functions main reaches are the ones compileAssembly has compiled; the
\* call sites of a function are the call statements naming it in their bodies.
CallSitesIn(body, functionName) ==
    Cardinality({i \in DOMAIN body :
                    body[i].kind = "call" /\ body[i].functionName = functionName})

RECURSIVE SumOfCallSites(_, _)
SumOfCallSites(callers, functionName) ==
    IF callers = {} THEN 0
    ELSE LET caller == CHOOSE c \in callers : TRUE
         IN  CallSitesIn(globalFunctions[caller], functionName)
             + SumOfCallSites(callers \ {caller}, functionName)

CallSites(functionName) == SumOfCallSites(DOMAIN compiledFunctions, functionName)

Callees == DOMAIN compiledFunctions \ {MainName}

JumpTo(jumpLabel) == <<"j", "m", "p", " ">> \o jumpLabel \o <<"\n", "j", "u", "m", "p", "L", "a", "b", "e", "l">>

CallTo(jumpLabel) == <<"c", "a", "l", "l", " ">> \o jumpLabel \o <<"\n">>

ReturnInstruction == <<"\n", "r", "e", "t">>

Inlined(functionName) ==
    /\ Occurs(JumpTo(compiledFunctions[functionName].jumpLabel), out)
    /\ ~Occurs(CallTo(compiledFunctions[functionName].jumpLabel), out)
    /\ ~Occurs(ReturnInstruction, compiledFunctions[functionName].assembly)

Called(functionName) ==
    /\ Occurs(CallTo(compiledFunctions[functionName].jumpLabel), out)
    /\ ~Occurs(JumpTo(compiledFunctions[functionName].jumpLabel), out)
    /\ Occurs(ReturnInstruction, compiledFunctions[functionName].assembly)

\* C1: in the assembly compileAssembly returns, a function with one call site
\* is reached by jmp and a resume label, without call or ret, and a function
\* with two or more call sites is reached by call and returns with ret.
C1_CallSitesDecideLowering ==
    phase = "done" =>
        \A functionName \in Callees :
            IF CallSites(functionName) = 1 THEN Inlined(functionName) ELSE Called(functionName)

\* C2: a second run of compileAssembly on the same AST returns the assembly
\* the first run returned.
C2_SecondRunSameAssembly ==
    (phase = "done" /\ run = 2) => out = previousOut

\* A character literal in the assembly is a quote, the character (after a
\* backslash, if there is one) and a quote, as lexCode reads it.
RECURSIVE PlaceholderFrom(_, _)
PlaceholderFrom(text, i) ==
    IF i > Len(text) THEN FALSE
    ELSE IF text[i] = "'"
         THEN PlaceholderFrom(text, IF i < Len(text) /\ text[i + 1] = "\\" THEN i + 4 ELSE i + 3)
    ELSE IF text[i] \in {"/", "\\"} THEN TRUE
    ELSE PlaceholderFrom(text, i + 1)

\* C3: after the linker pass no function in the output holds a call
\* placeholder or a return placeholder outside a character literal.
C3_NoPlaceholderLeft ==
    phase = "done" =>
        \A functionName \in DOMAIN compiledFunctions :
            ~PlaceholderFrom(compiledFunctions[functionName].assembly, 1)

\* The number of positions of text at which pattern starts.
Occurrences(pattern, text) ==
    Cardinality({i \in 1 .. Len(text) - Len(pattern) + 1 :
                    SubSeq(text, i, i + Len(pattern) - 1) = pattern})

\* C17: when getAssemblyForFunctionCall runs
\* transformFunctionDefinitionIntoValidAssembly on a function that has its
\* jump label already, the call changes nothing: the compiled functions (their
\* assembly, jump labels and references) are the same after it, and the
\* counter of jump labels holds no more than the label the caller took for
\* itself before the call, whatever return assembly is passed.
C17_TransformOfLabelledFunctionIsNoOp ==
    [][ (AtCall /\ closingIndex < Len(transformedText)
               /\ called.references > 0 /\ called.jumpLabel # <<>>)
        => /\ compiledFunctions' = compiledFunctions
           /\ numberOfJumps' = jumpsAfterCallerLabel
    ]_vars

\* C17 witness: the linker pass is over for a program in which a function was
\* called at two places: its second call found the jump label set, so the
\* output jumps to the one label twice.
C17_Witness ==
    /\ phase = "done"
    /\ \E functionName \in Callees :
          /\ compiledFunctions[functionName].jumpLabel # <<>>
          /\ Occurrences(<<"j", "m", "p", " ">> \o compiledFunctions[functionName].jumpLabel
                             \o <<"\n">>, out) >= 2

\* The function called by the statement compileBlockToAssembly is at.
calledAtStatement == compiledBody[compiling.index].functionName

BeingCompiled(functionName) ==
    \E i \in 1 .. Len(compileStack) : compileStack[i].functionName = functionName

\* C18: a call of a function that has been compiled already (it is in the
\* compiled functions, and its compilation is over) does not compile the
\* function again: no compileFunctionDefinition is entered, the assembly of
\* the function stays, and its references go up by one.
C18_CompiledFunctionIsNotCompiledAgain ==
    [][ (AtStatement("call") /\ calledAtStatement \in DOMAIN compiledFunctions
                            /\ ~BeingCompiled(calledAtStatement))
        => /\ Len(compileStack') = Len(compileStack)
           /\ compiledFunctions' = referenced(compiledFunctions, calledAtStatement)
    ]_vars

\* C19: no function is compiled while it is being compiled: the function
\* definitions compileFunctionDefinition is inside of are different
\* functions, so that their nesting ends.
C19_NotCompiledWhileBeingCompiled ==
    \A i, j \in 1 .. Len(compileStack) :
        i # j => compileStack[i].functionName # compileStack[j].functionName

EndsWith(text, suffix) ==
    /\ Len(text) >= Len(suffix)
    /\ SubSeq(text, Len(text) - Len(suffix) + 1, Len(text)) = suffix

\* The output holds a call site of the function that jumps to it and resumes
\* at the jump label of that number.
JumpCallSite(functionName, number) ==
    Occurs(<<"j", "m", "p", " ">> \o compiledFunctions[functionName].jumpLabel \o <<"\n">>
               \o jumpLabelNumbered(number) \o <<":">>, out)

\* The return of the function, the last instruction of its assembly, jumps to
\* the label.
ReturnsTo(functionName, callerJumpLabel) ==
    EndsWith(compiledFunctions[functionName].assembly,
             <<"\n", "j", "m", "p", " ">> \o callerJumpLabel)

\* C27: in the assembly compileAssembly returns, the return of a callee leads
\* to the instruction after the call site the callee was entered from: for
\* every call site that jumps to the callee and resumes at a label, the
\* callee's return jumps to that label, and a callee reached by call returns
\* with ret.
C27_ReturnResumesAfterItsCallSite ==
    phase = "done" =>
        \A functionName \in Callees :
            /\ \A number \in 1 .. numberOfJumps :
                   JumpCallSite(functionName, number)
                       => ReturnsTo(functionName, jumpLabelNumbered(number))
            /\ Occurs(CallTo(compiledFunctions[functionName].jumpLabel), out)
                   => EndsWith(compiledFunctions[functionName].assembly, ReturnInstruction)

\* The body adds no assembly: it is empty, or holds drop statements only
\* (comments are no statements of the AST).
EmitsNoInstruction(body) == \A i \in 1 .. Len(body) : body[i].kind = "drop"

EmptyBodyAborts ==
    /\ phase = "panic"
    /\ compileStack # <<>>
    /\ EmitsNoInstruction(compiledBody)

\* C29: a function whose body adds no assembly is compiled without an abort;
\* what compileFunctionDefinition stores for it is the return placeholder, and
\* when the function is main the assembly compileAssembly returns for it is
\* the label _start followed by the exit code.
C29_BodyWithoutInstructionIsCompiled ==
    /\ ~EmptyBodyAborts
    /\ \A functionName \in DOMAIN compiledFunctions :
          ( /\ phase = "compiled"
            /\ EmitsNoInstruction(globalFunctions[functionName]) )
          => compiledFunctions[functionName].assembly = returnCode
    /\ (phase = "done" /\ EmitsNoInstruction(globalFunctions[MainName]))
           => compiledFunctions[MainName].assembly
                  = <<"\n", "_", "s", "t", "a", "r", "t", ":", "\n">> \o MainReturnAssembly

\* ---- jump labels in the assembly compileAssembly returns ----
StartLabel == <<"_", "s", "t", "a", "r", "t">>

\* The labels the assembly can name: _start and the labels createNewJumpLabel
\* has returned.
JumpLabels == {StartLabel} \cup {jumpLabelNumbered(number) : number \in 1 .. numberOfJumps}

\* The line that defines a label, and the end of a line whose operand is the
\* label (jmp, a conditional jump, call, .global).
LabelDefinition(jumpLabel) == <<"\n">> \o jumpLabel \o <<":">>

LabelOperand(jumpLabel) == <<" ">> \o jumpLabel \o <<"\n">>

\* C30: in the assembly compileAssembly returns, no jump label is defined
\* twice, and a label some instruction jumps to or calls is defined once; the
\* labels of while loops and the labels of the linking come from one counter.
C30_JumpLabelsAreDefinedOnce ==
    phase = "done" =>
        \A jumpLabel \in JumpLabels :
            /\ Occurrences(LabelDefinition(jumpLabel), out) <= 1
            /\ Occurs(LabelOperand(jumpLabel), out)
                   => Occurrences(LabelDefinition(jumpLabel), out) = 1

\* A returned assembly that holds the labels of a while loop, the label of the
\* loop body next to the label of the loop condition, and jumps to a label
\* created before the loop and to a label created after it.
C30_Witness ==
    /\ phase = "done"
    /\ \E number \in 2 .. numberOfJumps - 3 :
          /\ Occurs(LabelDefinition(jumpLabelNumbered(number))
                        \o LabelDefinition(jumpLabelNumbered(number + 1)), out)
          /\ \E before \in 1 .. number - 1, after \in number + 2 .. numberOfJumps :
                /\ Occurs(LabelOperand(jumpLabelNumbered(before)), out)
                /\ Occurs(LabelOperand(jumpLabelNumbered(after)), out)

(***************************************************************************)
(* Lexing component: lexCode                                               *)
(*                                                                         *)
(* The position in the text is counted from 0 as in the source; lines and  *)
(* columns are counted from 1.                                              *)
(***************************************************************************)
MaxTextLen == 4      \* characters of a lexed text

IgnorableWhitespace == {" ", "\t", "\r"}

DigitCharacters == {Digits[i] : i \in DOMAIN Digits}

NumberCharacters == DigitCharacters \cup {"_"}

Letters ==
    {"a", "b", "c", "d", "e", "f", "g", "h", "i", "j", "k", "l", "m", "n", "o", "p", "q", "r",
     "s", "t", "u", "v", "w", "x", "y", "z",
     "A", "B", "C", "D", "E", "F", "G", "H", "I", "J", "K", "L", "M", "N", "O", "P", "Q", "R",
     "S", "T", "U", "V", "W", "X", "Y", "Z"}

VariableCharacters == Letters \cup DigitCharacters \cup {"_"}

SymbolCharacters ==
    {",", ":", "=", "|", "<", ">", "&", "+", "-", "*", "/", ".", "%", "!", "^"}

\* The symbols the scan after the first symbol adds to the keyword.
FollowingSymbolCharacters == {":", "=", "|", "<", ">", "&", "+", "-", "*", "/", ".", "%"}

textAndPosition(index, line, column) == [index |-> index, line |-> line, column |-> column]

characterAt(text, position) == text[position.index + 1]

\* moveForward returns true, and moves nothing, at the last character.
atLastCharacter(text, position) == position.index >= Len(text) - 1

moveForward(text, position) ==
    IF atLastCharacter(text, position) THEN position
    ELSE IF characterAt(text, position) = "\n"
    THEN textAndPosition(position.index + 1, position.line + 1, 1)
    ELSE textAndPosition(position.index + 1, position.line, position.column + 1)

\* findUntil with a checker that is false on the characters skipped (and on
\* nothing else): the position where it stops.  The checker has answered true
\* there unless the character is one of skipped.
RECURSIVE findUntil(_, _, _)
findUntil(text, position, skipped) ==
    IF characterAt(text, position) \notin skipped \/ atLastCharacter(text, position)
    THEN position
    ELSE findUntil(text, moveForward(text, position), skipped)

\* findUntil with a checker that is true on the characters of stops only.
RECURSIVE findUntilOneOf(_, _, _)
findUntilOneOf(text, position, stops) ==
    IF characterAt(text, position) \in stops \/ atLastCharacter(text, position)
    THEN position
    ELSE findUntilOneOf(text, moveForward(text, position), stops)

\* text.text[start:text.index]
iteratedString(text, start, position) == SubSeq(text, start.index + 1, position.index)

keyword(contents, keywordType, nesting, position) ==
    [contents |-> contents, keywordType |-> keywordType, nesting |-> nesting,
     location |-> Loc(position.line, position.column)]

lexError(msg, position) == codeParsingError(msg, Loc(position.line, position.column))

\* The state of lexCode between two rounds of its loop.
lexState(position, keywords, parsingErrors, nesting, status) ==
    [position |-> position, keywords |-> keywords, parsingErrors |-> parsingErrors,
     nesting |-> nesting, status |-> status]

lexStart == lexState(textAndPosition(0, 1, 1), <<>>, <<>>, 0, "lexing")

\* The end of a round that has read a keyword.  nesting is a uint8.
addKeyword(s, contents, keywordType, nesting, keywordPosition, position) ==
    lexState(position,
             Append(s.keywords, keyword(contents, keywordType, nesting, keywordPosition)),
             s.parsingErrors,
             IF keywordType = "IncreaseNesting" THEN (nesting + 1) % 256 ELSE nesting,
             "lexing")

\* The end of a round that has added errors and no keyword (continue).
addErrors(s, errors, position) ==
    lexState(position, s.keywords, s.parsingErrors \o errors, s.nesting, "lexing")

\* ---- the cases of the switch; p is the position of the keyword ----
lexNewline(text, s, p) ==
    IF atLastCharacter(text, p)
    THEN lexState(p, s.keywords, s.parsingErrors, s.nesting, "returned")
    ELSE addKeyword(s, <<"\n">>, "Newline", s.nesting, p, moveForward(text, p))

lexComment(text, s, p) ==
    addKeyword(s, iteratedString(text, p, findUntilOneOf(text, p, {"\n"})), "Comment",
               s.nesting, p, findUntilOneOf(text, p, {"\n"}))

lexIncreaseNesting(text, s, p) ==
    addKeyword(s, <<characterAt(text, p)>>, "IncreaseNesting", s.nesting, p, moveForward(text, p))

lexDecreaseNesting(text, s, p) ==
    addKeyword(s, <<characterAt(text, p)>>, "DecreaseNesting", (s.nesting + 255) % 256, p,
               moveForward(text, p))

\* case '\'': p1 is the position after the quote, p2 the position of the
\* character (after the backslash, if there is one), p3 the position after it.
endOfTextError(text, position, after) ==
    IF atLastCharacter(text, position) THEN <<lexError("UnexpectedEndOfText", after)>> ELSE <<>>

characterValueEnd(text, s, p, p1, p2, escape) ==
    [addKeyword(s, <<"'">> \o escape \o <<characterAt(text, p2), "'">>, "CharValue", s.nesting, p,
                moveForward(text, moveForward(text, p2)))
        EXCEPT !.parsingErrors =
            @ \o endOfTextError(text, p, p1)
              \o (IF escape # <<>> THEN endOfTextError(text, p1, p2) ELSE <<>>)
              \o endOfTextError(text, p2, moveForward(text, p2))
              \o (IF characterAt(text, moveForward(text, p2)) # "'"
                  THEN <<lexError("ExpectedQuote", moveForward(text, p2))>> ELSE <<>>)]

characterValueFrom(text, s, p, p1) ==
    IF characterAt(text, p1) = "\\"
    THEN characterValueEnd(text, s, p, p1, moveForward(text, p1), <<"\\">>)
    ELSE characterValueEnd(text, s, p, p1, p1, <<>>)

lexCharValue(text, s, p) == characterValueFrom(text, s, p, moveForward(text, p))

\* case '"': p1 is the position after the quote, p2 where the scan stops.
stringValueEnd(text, s, p, p1, p2) ==
    addKeyword(s, <<"\"">> \o iteratedString(text, p1, p2) \o <<"\"">>, "StringValue",
               s.nesting, p, moveForward(text, p2))

lexStringValue(text, s, p) ==
    stringValueEnd(text, s, p, moveForward(text, p),
                   findUntilOneOf(text, moveForward(text, p), {"\""}))

\* positiveNumberToKeyword: p1 is where the digits end.
numberKeyword(hasDecimal, contents, position) ==
    [hasDecimal |-> hasDecimal, contents |-> contents, position |-> position]

decimalFrom(text, p, p1, p2) ==
    numberKeyword(TRUE,
                  iteratedString(text, p, p1) \o <<".">>
                      \o iteratedString(text, p2, findUntil(text, p2, NumberCharacters)),
                  findUntil(text, p2, NumberCharacters))

numberFrom(text, p, p1) ==
    IF \/ atLastCharacter(text, p1)
       \/ characterAt(text, p1) # "."
       \/ text[p1.index + 2] = "."
    THEN numberKeyword(FALSE, iteratedString(text, p, p1), p1)
    ELSE decimalFrom(text, p, p1, moveForward(text, p1))

positiveNumberToKeyword(text, p) == numberFrom(text, p, findUntil(text, p, NumberCharacters))

addNumber(s, number, sign, integerType, p) ==
    addKeyword(s, sign \o number.contents,
               IF number.hasDecimal THEN "Decimal" ELSE integerType, s.nesting, p, number.position)

lexNumber(text, s, p) ==
    addNumber(s, positiveNumberToKeyword(text, p), <<>>, "PositiveInteger", p)

\* case of the syntax symbols: p1 is the position after the first symbol, p2
\* where the scan stops.  The scan adds the symbols it passes, and not the
\* whitespace between them.
RECURSIVE symbolsBetween(_, _, _)
symbolsBetween(text, from, to) ==
    IF from > to THEN <<>>
    ELSE (IF text[from + 1] \in FollowingSymbolCharacters THEN <<text[from + 1]>> ELSE <<>>)
         \o symbolsBetween(text, from + 1, to)

symbolSeries(text, p, p1, p2) ==
    <<characterAt(text, p)>>
        \o symbolsBetween(text, p1.index,
                          IF characterAt(text, p2) \in IgnorableWhitespace \cup FollowingSymbolCharacters
                          THEN p2.index ELSE p2.index - 1)

symbolKeywordTypes ==
    [contents \in {<<"=">>, <<"+", "+">>, <<"-", "-">>, <<"+", "=">>, <<"-", "=">>, <<"*", "=">>,
                   <<"/", "=">>, <<"=", "=">>, <<"!", "=">>, <<"<", "=">>, <<">", "=">>, <<"<">>,
                   <<">">>, <<"^">>, <<",">>} |->
        IF contents = <<"=">> THEN "Assignment"
        ELSE IF contents = <<"+", "+">> THEN "Increment"
        ELSE IF contents = <<"-", "-">> THEN "Decrement"
        ELSE IF contents = <<"+", "=">> THEN "PlusEquals"
        ELSE IF contents = <<"-", "=">> THEN "MinusEquals"
        ELSE IF contents = <<"*", "=">> THEN "MultiplyEquals"
        ELSE IF contents = <<"/", "=">> THEN "DivideEquals"
        ELSE IF contents = <<"^">> THEN "Dereference"
        ELSE IF contents = <<",">> THEN "ListSyntax"
        ELSE "ComparisonSyntax"]

\* case "-": the keyword is a negative number; p3 is the position after one
\* more moveForward.
negativeNumber(text, s, p, p3) ==
    IF characterAt(text, p3) \notin DigitCharacters
    THEN addErrors(s, <<lexError("AfterMinusExpectingNumber", p)>>, p3)
    ELSE addNumber(s, positiveNumberToKeyword(text, p3), <<"-">>, "NegativeInteger", p)

symbolKeyword(text, s, p, p2, contents) ==
    IF contents = <<"-">> THEN negativeNumber(text, s, p, moveForward(text, p2))
    ELSE IF contents \in DOMAIN symbolKeywordTypes
    THEN addKeyword(s, contents, symbolKeywordTypes[contents], s.nesting, p, p2)
    ELSE addErrors(s, <<lexError("UnknownSymbolSeries", p)>>, p2)

symbolsFrom(text, s, p, p1, p2) == symbolKeyword(text, s, p, p2, symbolSeries(text, p, p1, p2))

lexSymbols(text, s, p) ==
    symbolsFrom(text, s, p, moveForward(text, p),
                findUntil(text, moveForward(text, p),
                          IgnorableWhitespace \cup FollowingSymbolCharacters))

\* case of the letters and _: p1 is where the word ends.
RegisterKeywords == {<<"r">> \o Itoa(register) : register \in Registers}

wordKeywordType(contents) ==
    IF contents = <<"f", "n">> THEN "Function"
    ELSE IF contents = <<"d", "r", "o", "p">> THEN "DropVariable"
    ELSE IF contents = <<"i", "f">> THEN "IfStatement"
    ELSE IF contents = <<"e", "l", "i", "f">> THEN "ElifStatement"
    ELSE IF contents = <<"e", "l", "s", "e">> THEN "ElseStatement"
    ELSE IF contents = <<"w", "h", "i", "l", "e">> THEN "WhileLoop"
    ELSE IF contents = <<"b", "r", "e", "a", "k">> THEN "BreakStatement"
    ELSE IF contents = <<"c", "o", "n", "t", "i", "n", "u", "e">> THEN "ContinueStatement"
    ELSE IF contents \in {<<"t", "r", "u", "e">>, <<"f", "a", "l", "s", "e">>} THEN "BoolValue"
    ELSE IF contents \in RegisterKeywords THEN "RegisterKeyword"
    ELSE IF contents = <<"r", "e", "t", "u", "r", "n">> THEN "FunctionReturn"
    ELSE IF contents = <<"i", "m", "p", "o", "r", "t">> THEN "Import"
    ELSE IF contents = <<"a", "n", "d">> THEN "And"
    ELSE IF contents = <<"o", "r">> THEN "Or"
    ELSE "Name"

\* A name followed by a dot: text.index++ steps over the dot without
\* moveForward (the column stays, and the index may leave the text, which the
\* next read of text.text[text.index] does not survive); p4 is the position
\* after the whitespace that follows the dot.
nameWithNumber(text, s, p, contents, p4) ==
    addKeyword(s, contents \o <<".">>
                     \o iteratedString(text, p4, findUntil(text, p4, NumberCharacters)),
               "Name", s.nesting, p, findUntil(text, p4, NumberCharacters))

nameAfterDot(text, s, p, contents, p3) ==
    IF p3.index >= Len(text)
    THEN lexState(p3, s.keywords, s.parsingErrors, s.nesting, "panic")
    ELSE nameWithNumber(text, s, p, contents, findUntil(text, p3, IgnorableWhitespace))

nameKeyword(text, s, p, contents, p2) ==
    IF characterAt(text, p2) = "."
    THEN nameAfterDot(text, s, p, contents, [p2 EXCEPT !.index = @ + 1])
    ELSE addKeyword(s, contents, "Name", s.nesting, p, p2)

wordKeyword(text, s, p, p1, contents) ==
    IF wordKeywordType(contents) = "Name"
    THEN nameKeyword(text, s, p, contents, findUntil(text, p1, IgnorableWhitespace))
    ELSE addKeyword(s, contents, wordKeywordType(contents), s.nesting, p, p1)

wordFrom(text, s, p, p1) == wordKeyword(text, s, p, p1, iteratedString(text, p, p1))

lexWord(text, s, p) == wordFrom(text, s, p, findUntil(text, p, VariableCharacters))

lexUnexpected(text, s, p) ==
    addErrors(s, <<lexError("UnexpectedCharacter", p)>>, moveForward(text, p))

\* ---- one round of the loop of lexCode ----
keywordCase(character) ==
    IF character = "\n" THEN "newline"
    ELSE IF character = "#" THEN "comment"
    ELSE IF character \in {"(", "{", "["} THEN "increaseNesting"
    ELSE IF character \in {")", "}", "]"} THEN "decreaseNesting"
    ELSE IF character = "'" THEN "charValue"
    ELSE IF character = "\"" THEN "stringValue"
    ELSE IF character \in SymbolCharacters THEN "symbols"
    ELSE IF character \in Letters \cup {"_"} THEN "word"
    ELSE IF character \in DigitCharacters THEN "number"
    ELSE "unexpected"

lexKeyword(text, s, p) ==
    CASE keywordCase(characterAt(text, p)) = "newline" -> lexNewline(text, s, p)
      [] keywordCase(characterAt(text, p)) = "comment" -> lexComment(text, s, p)
      [] keywordCase(characterAt(text, p)) = "increaseNesting" -> lexIncreaseNesting(text, s, p)
      [] keywordCase(characterAt(text, p)) = "decreaseNesting" -> lexDecreaseNesting(text, s, p)
      [] keywordCase(characterAt(text, p)) = "charValue" -> lexCharValue(text, s, p)
      [] keywordCase(characterAt(text, p)) = "stringValue" -> lexStringValue(text, s, p)
      [] keywordCase(characterAt(text, p)) = "symbols" -> lexSymbols(text, s, p)
      [] keywordCase(characterAt(text, p)) = "word" -> lexWord(text, s, p)
      [] keywordCase(characterAt(text, p)) = "number" -> lexNumber(text, s, p)
      [] OTHER -> lexUnexpected(text, s, p)

\* The loop condition text.findUntil(isNotIgnorableWhitespace) is false when
\* only whitespace is left: lexCode returns.
nextKeywordPosition(text, s) == findUntil(text, s.position, IgnorableWhitespace)

\* In the empty text the first read of text.text[text.index], by the checker
\* of findUntil, is out of range.
lexRound(text, s) ==
    IF text = <<>>
    THEN lexState(s.position, s.keywords, s.parsingErrors, s.nesting, "panic")
    ELSE IF characterAt(text, nextKeywordPosition(text, s)) \in IgnorableWhitespace
    THEN lexState(nextKeywordPosition(text, s), s.keywords, s.parsingErrors, s.nesting, "returned")
    ELSE lexKeyword(text, s, nextKeywordPosition(text, s))

\* ---- the texts lexed ----
LexCharacters == {"a", "1", "-", " ", "\n", "#", ".", "\"", "'", "(", ")", "$"}

Texts == UNION {[1..n -> LexCharacters] : n \in 0..MaxTextLen}

\* A text of n characters gives at most n keywords, unless the loop of lexCode
\* has stopped moving forward: then it adds keywords or errors without end,
\* and the model follows it until both lists together hold MaxKeywords items.
MaxKeywords == MaxTextLen + 1

LexIdle ==
    /\ code = <<>>
    /\ lexer = lexState(textAndPosition(0, 1, 1), <<>>, <<>>, 0, "idle")

LexInit ==
    /\ code \in Texts
    /\ lexer = lexStart
    /\ RegIdle
    /\ LinkIdle

InRound(case) ==
    /\ lexer.status = "lexing"
    /\ code # <<>>
    /\ Len(lexer.keywords) + Len(lexer.parsingErrors) < MaxKeywords
    /\ characterAt(code, nextKeywordPosition(code, lexer)) \notin IgnorableWhitespace
    /\ keywordCase(characterAt(code, nextKeywordPosition(code, lexer))) = case

LexNewline ==
    /\ InRound("newline")
    /\ lexer' = lexRound(code, lexer)
    /\ UNCHANGED <<outsideLex, code>>

LexComment ==
    /\ InRound("comment")
    /\ lexer' = lexRound(code, lexer)
    /\ UNCHANGED <<outsideLex, code>>

LexIncreaseNesting ==
    /\ InRound("increaseNesting")
    /\ lexer' = lexRound(code, lexer)
    /\ UNCHANGED <<outsideLex, code>>

LexDecreaseNesting ==
    /\ InRound("decreaseNesting")
    /\ lexer' = lexRound(code, lexer)
    /\ UNCHANGED <<outsideLex, code>>

LexCharValue ==
    /\ InRound("charValue")
    /\ lexer' = lexRound(code, lexer)
    /\ UNCHANGED <<outsideLex, code>>

LexStringValue ==
    /\ InRound("stringValue")
    /\ lexer' = lexRound(code, lexer)
    /\ UNCHANGED <<outsideLex, code>>

LexSymbols ==
    /\ InRound("symbols")
    /\ lexer' = lexRound(code, lexer)
    /\ UNCHANGED <<outsideLex, code>>

LexWord ==
    /\ InRound("word")
    /\ lexer' = lexRound(code, lexer)
    /\ UNCHANGED <<outsideLex, code>>

LexNumber ==
    /\ InRound("number")
    /\ lexer' = lexRound(code, lexer)
    /\ UNCHANGED <<outsideLex, code>>

LexUnexpected ==
    /\ InRound("unexpected")
    /\ lexer' = lexRound(code, lexer)
    /\ UNCHANGED <<outsideLex, code>>

LexReturn ==
    /\ lexer.status = "lexing"
    /\ code # <<>>
    /\ characterAt(code, nextKeywordPosition(code, lexer)) \in IgnorableWhitespace
    /\ lexer' = lexRound(code, lexer)
    /\ UNCHANGED <<outsideLex, code>>

LexEmptyText ==
    /\ lexer.status = "lexing"
    /\ code = <<>>
    /\ lexer' = lexRound(code, lexer)
    /\ UNCHANGED <<outsideLex, code>>

LexNext ==
    \/ LexEmptyText
    \/ LexNewline
    \/ LexComment
    \/ LexIncreaseNesting
    \/ LexDecreaseNesting
    \/ LexCharValue
    \/ LexStringValue
    \/ LexSymbols
    \/ LexWord
    \/ LexNumber
    \/ LexUnexpected
    \/ LexReturn

(***************************************************************************)
(* Properties of the lexing component                                      *)
(***************************************************************************)
RECURSIVE concatenatedContents(_, _)
concatenatedContents(keywords, i) ==
    IF i > Len(keywords) THEN <<>>
    ELSE keywords[i].contents \o concatenatedContents(keywords, i + 1)

\* The text without the spaces, tabs and carriage returns outside string and
\* character literals.  A string literal runs to the next double quote; a
\* character literal is a quote, the character (after a backslash, if there
\* is one) and a quote.
RECURSIVE closingQuote(_, _)
closingQuote(text, i) ==
    IF i >= Len(text) THEN Len(text)
    ELSE IF text[i] = "\"" THEN i
    ELSE closingQuote(text, i + 1)

Minimum(a, b) == IF a < b THEN a ELSE b

literalEnd(text, i) ==
    IF text[i] = "\"" THEN closingQuote(text, i + 1)
    ELSE Minimum(Len(text), IF i < Len(text) /\ text[i + 1] = "\\" THEN i + 3 ELSE i + 2)

RECURSIVE withoutIgnorableWhitespace(_, _)
withoutIgnorableWhitespace(text, i) ==
    IF i > Len(text) THEN <<>>
    ELSE IF text[i] \in {"\"", "'"}
    THEN SubSeq(text, i, literalEnd(text, i)) \o withoutIgnorableWhitespace(text, literalEnd(text, i) + 1)
    ELSE IF text[i] \in IgnorableWhitespace THEN withoutIgnorableWhitespace(text, i + 1)
    ELSE <<text[i]>> \o withoutIgnorableWhitespace(text, i + 1)

LexedWithoutErrors == lexer.status = "returned" /\ lexer.parsingErrors = <<>>

\* C10: when lexCode returns without errors, the contents of its keywords,
\* concatenated in order, are the text without the ignorable whitespace that
\* lies outside string and character literals.
C10_KeywordsConcatenateToText ==
    LexedWithoutErrors =>
        concatenatedContents(lexer.keywords, 1) = withoutIgnorableWhitespace(code, 1)

\* The number of digits of text from its character i on.
RECURSIVE digitRun(_, _)
digitRun(text, i) ==
    IF i > Len(text) \/ text[i] \notin DigitCharacters THEN 0
    ELSE 1 + digitRun(text, i + 1)

\* The text is a - directly followed by one digit or more, and by nothing or
\* by whitespace or a newline after them.
MinusAndDigits ==
    /\ Len(code) >= 2
    /\ code[1] = "-"
    /\ digitRun(code, 2) >= 1
    /\ \A i \in 2 + digitRun(code, 2) .. Len(code) : code[i] \in {" ", "\n"}

FirstRoundDone ==
    lexer.status # "idle" /\ (lexer.status # "lexing" \/ lexer.keywords # <<>> \/ lexer.parsingErrors # <<>>)

\* C23: a - directly followed by n >= 1 digits is lexed as one
\* NegativeInteger keyword whose contents are the - and all n digits, and
\* lexCode reports no error for it.
C23_MinusAndDigitsIsOneNegativeInteger ==
    MinusAndDigits /\ FirstRoundDone
        => /\ lexer.parsingErrors = <<>>
           /\ lexer.keywords # <<>>
           /\ lexer.keywords[1].keywordType = "NegativeInteger"
           /\ lexer.keywords[1].contents = SubSeq(code, 1, 1 + digitRun(code, 2))

\* C26: lexCode returns, with its keywords and its errors, for every text,
\* the empty text and the texts of every last character among them.
C26_LexCodeReturns == <>(lexer.status = "returned")

(***************************************************************************)
(* Parsing: keyword lists (parser.go).  A listIterator is a keyword list   *)
(* and the index of the current keyword, counted from 1.                   *)
(***************************************************************************)
\* lexCode from its first round to its return.
RECURSIVE lexCodeFrom(_, _, _)
lexCodeFrom(text, s, rounds) ==
    IF s.status # "lexing" \/ rounds = 0 THEN s
    ELSE lexCodeFrom(text, lexRound(text, s), rounds - 1)

lexCode(text) == lexCodeFrom(text, lexStart, Len(text) + 1)

\* The names of the model's variables as the lexer spells them.
nameOfContents(contents) ==
    IF contents = <<"a">> THEN "a"
    ELSE IF contents = <<"b">> THEN "b"
    ELSE IF contents = <<"c">> THEN "c"
    ELSE "other"

iteratorAt(index, err) == [index |-> index, err |-> err]

\* nextNonEmpty: the next keyword that is no newline and no comment.
RECURSIVE nextNonEmpty(_, _)
nextNonEmpty(keywords, index) ==
    IF index + 1 > Len(keywords)
    THEN iteratorAt(index, codeParsingError("UnexpectedEndOfKeywords", keywords[index].location))
    ELSE IF keywords[index + 1].keywordType \notin {"Newline", "Comment"}
    THEN iteratorAt(index + 1, codeParsingError(NoError, ZeroLocation))
    ELSE nextNonEmpty(keywords, index + 1)

parsedValue(value, index, err) == [value |-> value, index |-> index, err |-> err]

noValue == literalValue("none", ZeroLocation)

RECURSIVE parseVariableValueFrom(_, _, _, _, _)
afterValueModifier(keywords, next, location, variableIsDropped, pointerDereferenceLayers) ==
    IF next.err.msg # NoError THEN parsedValue(noValue, next.index, next.err)
    ELSE parseVariableValueFrom(keywords, next.index, location, variableIsDropped,
                                pointerDereferenceLayers)

parseVariableValueFrom(keywords, index, location, variableIsDropped, pointerDereferenceLayers) ==
    IF keywords[index].keywordType = "Dereference"
    THEN afterValueModifier(keywords, nextNonEmpty(keywords, index), location, variableIsDropped,
                            pointerDereferenceLayers + 1)
    ELSE IF keywords[index].keywordType = "DropVariable"
    THEN IF variableIsDropped
         THEN parsedValue(noValue, index,
                          codeParsingError("VariableAlreadyDropped", keywords[index].location))
         ELSE afterValueModifier(keywords, nextNonEmpty(keywords, index), location, TRUE,
                                 pointerDereferenceLayers)
    ELSE IF keywords[index].keywordType = "Name"
    THEN parsedValue(variableValue(nameOfContents(keywords[index].contents), variableIsDropped,
                                   pointerDereferenceLayers, location),
                     index, codeParsingError(NoError, ZeroLocation))
    ELSE parsedValue(noValue, index,
                     codeParsingError("ExpectedNameDropOrDereference", keywords[index].location))

parseVariableValue(keywords, index) ==
    parseVariableValueFrom(keywords, index, keywords[index].location, FALSE, 0)

parseRawValue(keywords, index) ==
    IF keywords[index].keywordType \in {"Name", "DropVariable", "Dereference"}
    THEN parseVariableValue(keywords, index)
    ELSE IF keywords[index].keywordType \in
              {"PositiveInteger", "NegativeInteger", "Decimal", "CharValue", "StringValue"}
    THEN parsedValue(literalValue(keywords[index].keywordType, keywords[index].location), index,
                     codeParsingError(NoError, ZeroLocation))
    ELSE parsedValue(noValue, index,
                     codeParsingError("UnexpectedKeywordType", keywords[index].location))

\* stringToRegister: the number after the r.
stringToRegister(contents) ==
    CHOOSE register \in Registers : contents = <<"r">> \o Itoa(register)

\* parseFunctionArguments
parsedArguments(arguments, index, err) == [arguments |-> arguments, index |-> index, err |-> err]

RECURSIVE parseFunctionArgumentsFrom(_, _, _)
afterArgumentSeparator(keywords, next, arguments) ==
    IF next.err.msg # NoError THEN parsedArguments(<<>>, next.index, next.err)
    ELSE parseFunctionArgumentsFrom(keywords, next.index, arguments)

afterArgumentValue(keywords, next, arguments) ==
    IF next.err.msg # NoError THEN parsedArguments(<<>>, next.index, next.err)
    ELSE IF keywords[next.index].keywordType # "ListSyntax"
    THEN parsedArguments(arguments, next.index, codeParsingError(NoError, ZeroLocation))
    ELSE afterArgumentSeparator(keywords, nextNonEmpty(keywords, next.index), arguments)

parseArgumentValue(keywords, register, value, arguments) ==
    IF value.err.msg # NoError THEN parsedArguments(<<>>, value.index, value.err)
    ELSE afterArgumentValue(keywords, nextNonEmpty(keywords, value.index),
                            Append(arguments,
                                   [register |-> register, value |-> value.value,
                                    textLocation |-> value.value.textLocation]))

afterArgumentAssignment(keywords, register, next, arguments) ==
    IF next.err.msg # NoError THEN parsedArguments(<<>>, next.index, next.err)
    ELSE parseArgumentValue(keywords, register, parseRawValue(keywords, next.index), arguments)

afterArgumentRegister(keywords, register, next, arguments) ==
    IF next.err.msg # NoError THEN parsedArguments(<<>>, next.index, next.err)
    ELSE IF \/ keywords[next.index].keywordType # "Assignment"
            \/ keywords[next.index].contents # <<"=">>
    THEN parsedArguments(<<>>, next.index,
                         codeParsingError("ExpectedAssignment", keywords[next.index].location))
    ELSE afterArgumentAssignment(keywords, register, nextNonEmpty(keywords, next.index), arguments)

parseFunctionArgumentsFrom(keywords, index, arguments) ==
    IF keywords[index].keywordType = "RegisterKeyword"
    THEN afterArgumentRegister(keywords, stringToRegister(keywords[index].contents),
                               nextNonEmpty(keywords, index), arguments)
    ELSE parseArgumentValue(keywords, UnknownRegister, parseRawValue(keywords, index), arguments)

parseFunctionArguments(keywords, index) ==
    IF keywords[index].keywordType = "DecreaseNesting"
    THEN parsedArguments(<<>>, index, codeParsingError(NoError, ZeroLocation))
    ELSE parseFunctionArgumentsFrom(keywords, index, <<>>)

\* The function call in a mutation statement, from its opening parenthesis:
\* the error of parseFunctionArguments is not looked at; the keyword it
\* stopped at has to be the closing parenthesis.
closeFunctionCall(keywords, arguments) ==
    IF \/ keywords[arguments.index].keywordType # "DecreaseNesting"
       \/ keywords[arguments.index].contents # <<")">>
    THEN parsedArguments(<<>>, arguments.index,
                         codeParsingError("ExpectedClosingParenthesis",
                                          keywords[arguments.index].location))
    ELSE parsedArguments(arguments.arguments, arguments.index,
                         codeParsingError(NoError, ZeroLocation))

functionCallAfterParenthesis(keywords, next) ==
    IF next.err.msg # NoError THEN parsedArguments(<<>>, next.index, next.err)
    ELSE closeFunctionCall(keywords, parseFunctionArguments(keywords, next.index))

parseFunctionCall(keywords, parenthesis) ==
    functionCallAfterParenthesis(keywords, nextNonEmpty(keywords, parenthesis))

(***************************************************************************)
(* Function-call component: codeToAssembly on a function call, from the    *)
(* text of the statement to the errors of its arguments.                   *)
(***************************************************************************)
MaxArguments == 2    \* arguments of the function call

\* The statement up to the opening parenthesis: a destination, = and the
\* function name.  The last one follows a comment line.
CallPrefixes ==
    { <<"r", "5", "=", "f">>,
      <<"\t", "r", "5", " ", "=", " ", "f">>,
      <<"r", "5", " ", "c", ".", "1", " ", "=", " ", "f">>,
      <<"#", " ", "c", "\n", "r", "5", "=", "f">> }

\* An argument: the register it names, if any, and its value.
argumentText(register, value) == [register |-> register, value |-> value]

ArgumentTexts ==
    { argumentText(<<>>, <<"0">>),
      argumentText(<<>>, <<"'", "a", "'">>),
      argumentText(<<>>, <<"a">>),
      argumentText(<<>>, <<"d", "r", "o", "p", " ", "a">>),
      argumentText(<<"r", "5", "=">>, <<"1">>),
      argumentText(<<"r", "5", " ", "=", " ">>, <<"a">>) }

CallTexts ==
    { [prefix |-> prefix, arguments |-> arguments] :
        prefix \in CallPrefixes,
        arguments \in UNION {[1..n -> ArgumentTexts] : n \in 1..MaxArguments} }

RECURSIVE argumentListText(_, _)
argumentListText(arguments, i) ==
    IF i > Len(arguments) THEN <<>>
    ELSE (IF i > 1 THEN <<",", " ">> ELSE <<>>)
         \o arguments[i].register \o arguments[i].value
         \o argumentListText(arguments, i + 1)

callStatementText(call) ==
    call.prefix \o <<"(">> \o argumentListText(call.arguments, 1) \o <<")", "\n">>

\* The register state at the call: the state after a function head.
CallRegisterStates ==
    { parseFunctionDefinitionRegisters(h.mutatedRegisters, h.arguments).regs : h \in
        {h \in Heads :
            parseFunctionDefinitionRegisters(h.mutatedRegisters, h.arguments).errs = <<>>} }

ArgsIdle ==
    /\ stage = "idle"
    /\ callText = [prefix |-> <<>>, arguments |-> <<>>]
    /\ regState = EmptyRegisters
    /\ callArguments = <<>>
    /\ returnedErrors = <<>>

ArgsInit ==
    /\ stage = "lex"
    /\ callText \in CallTexts
    /\ code = callStatementText(callText)
    /\ lexer = lexStart
    /\ regState \in CallRegisterStates
    /\ callArguments = <<>>
    /\ returnedErrors = <<>>
    /\ RegIdle
    /\ LinkIdle

\* codeToAssembly: lexCode, and its errors returned if there are any.
LexCallStatement ==
    /\ stage = "lex"
    /\ lexer' = lexCode(code)
    /\ IF lexer'.parsingErrors # <<>> \/ lexer'.status # "returned"
       THEN stage' = "done" /\ returnedErrors' = lexer'.parsingErrors
       ELSE stage' = "parse" /\ returnedErrors' = returnedErrors
    /\ UNCHANGED <<outsideArgs, code, callText, regState, callArguments>>

\* The parser at the function call: the first opening parenthesis.
openingParenthesis(keywords) ==
    CHOOSE i \in DOMAIN keywords :
        /\ keywords[i].keywordType = "IncreaseNesting"
        /\ \A j \in 1 .. (i - 1) : keywords[j].keywordType # "IncreaseNesting"

parsedCall == parseFunctionCall(lexer.keywords, openingParenthesis(lexer.keywords))

ParseCallStatement ==
    /\ stage = "parse"
    /\ IF parsedCall.err.msg # NoError
       THEN /\ stage' = "done"
            /\ returnedErrors' = <<parsedCall.err>>
            /\ callArguments' = callArguments
       ELSE /\ stage' = "compile"
            /\ returnedErrors' = returnedErrors
            /\ callArguments' = parsedCall.arguments
    /\ UNCHANGED <<outsideArgs, lexVars, callText, regState>>

\* compileFunctionCall: the arguments are compiled first, and their errors
\* are returned.
CompileCallArguments ==
    /\ stage = "compile"
    /\ stage' = "done"
    /\ returnedErrors' = compileFunctionCallArguments(callArguments, regState, TRUE).errs
    /\ regState' = compileFunctionCallArguments(callArguments, regState, TRUE).regs
    /\ UNCHANGED <<outsideArgs, lexVars, callText, callArguments>>

ArgsNext ==
    \/ LexCallStatement
    \/ ParseCallStatement
    \/ CompileCallArguments

(***************************************************************************)
(* Properties of the function-call component                               *)
(***************************************************************************)
\* The position of a character of the text: its line, and its column in the
\* line, both counted from 1; index is counted from 0.
RECURSIVE NewlinesBefore(_, _)
NewlinesBefore(text, index) ==
    IF index = 0 THEN 0
    ELSE (IF text[index] = "\n" THEN 1 ELSE 0) + NewlinesBefore(text, index - 1)

RECURSIVE ColumnOf(_, _)
ColumnOf(text, index) ==
    IF index = 0 \/ text[index] = "\n" THEN 1 ELSE 1 + ColumnOf(text, index - 1)

SourcePosition(text, index) == Loc(1 + NewlinesBefore(text, index), ColumnOf(text, index))

\* Where the value of argument k starts in the text of the statement.
ValueIndex(call, k) ==
    Len(call.prefix) + 1
        + Len(argumentListText(SubSeq(call.arguments, 1, k - 1), 1))
        + (IF k > 1 THEN 2 ELSE 0)
        + Len(call.arguments[k].register)

\* Argument k names no register and its value is no variable; the arguments
\* before it are compiled without an error.
BareValue(k) ==
    /\ k \in DOMAIN callArguments
    /\ callArguments[k].register = UnknownRegister
    /\ callArguments[k].value.kind # "variable"
    /\ compileFunctionCallArguments(SubSeq(callArguments, 1, k - 1), regState, TRUE).errs = <<>>

\* C4: an argument without a register whose value is no variable makes
\* codeToAssembly return one error, at the position of the value in the source.
C4_BareValueIsOneErrorAtItsPosition ==
    [][ \A k \in 1 .. MaxArguments :
          (stage = "compile" /\ BareValue(k))
          => /\ Len(returnedErrors') = 1
             /\ returnedErrors'[1].textLocation = SourcePosition(code, ValueIndex(callText, k))
      ]_vars

(***************************************************************************)
(* Conditions (parser.go: splitCondition, parseCondition, parseComparison, *)
(* parseConditionClauses, parseConditionalBlock)                           *)
(***************************************************************************)
MaxClauses == 3       \* clauses joined by and / or in one condition
MaxComparisons == 2   \* comparison operators in one chained comparison

\* A panic of the Go runtime (index out of range).
Panic == "panic"

\* The AST nodes of a condition are booleanValue, comparison and boolean as
\* above; the textLocation of a node is not kept.
noCondition == [kind |-> "nil"]

conditionAndError(condition, err) == [condition |-> condition, err |-> err]

conditionError(msg, location) == conditionAndError(noCondition, codeParsingError(msg, location))

\* splitCondition: the loop over the keywords from the keyword at index on.
\* lastSplitIndex is the index of the last keyword of type splitType outside
\* parentheses, 0 when there is none yet.
clausesAndError(clauses, err) == [clauses |-> clauses, err |-> err]

RECURSIVE splitConditionFrom(_, _, _, _, _, _)
splitConditionFrom(keywords, splitType, index, lastSplitIndex, nesting, returnValue) ==
    IF index > Len(keywords)
    THEN IF nesting > 0
         THEN clausesAndError(<<>>, codeParsingError("UnclosedParenthesis", keywords[1].location))
         ELSE clausesAndError(Append(returnValue,
                                     SubSeq(keywords, lastSplitIndex + 1, Len(keywords))),
                              codeParsingError(NoError, ZeroLocation))
    ELSE IF keywords[index].keywordType = "IncreaseNesting"
    THEN IF keywords[index].contents # <<"(">>
         THEN clausesAndError(<<>>, codeParsingError("IncreaseNestingMustBeParenthesis",
                                                     keywords[index].location))
         ELSE splitConditionFrom(keywords, splitType, index + 1, lastSplitIndex, nesting + 1,
                                 returnValue)
    ELSE IF keywords[index].keywordType = "DecreaseNesting"
    THEN IF keywords[index].contents # <<")">>
         THEN clausesAndError(<<>>, codeParsingError("DecreaseNestingMustBeParenthesis",
                                                     keywords[index].location))
         ELSE IF nesting - 1 < 0
         THEN clausesAndError(<<>>, codeParsingError("UnexpectedClosingParenthesis",
                                                     keywords[index].location))
         ELSE splitConditionFrom(keywords, splitType, index + 1, lastSplitIndex, nesting - 1,
                                 returnValue)
    ELSE IF keywords[index].keywordType = splitType /\ nesting = 0
    THEN IF index = 1 \/ index = Len(keywords)
         THEN clausesAndError(<<>>, codeParsingError("AndOrAtStartOrEnd",
                                                     keywords[index].location))
         ELSE splitConditionFrom(keywords, splitType, index + 1, index, nesting,
                                 Append(returnValue,
                                        SubSeq(keywords, lastSplitIndex + 1, index - 1)))
    ELSE splitConditionFrom(keywords, splitType, index + 1, lastSplitIndex, nesting, returnValue)

splitCondition(keywords, splitType) == splitConditionFrom(keywords, splitType, 1, 0, 0, <<>>)

\* parseComparison: the switch on the contents of the comparison keyword.
comparisonOperationOf(contents) ==
    IF contents = <<">">> THEN "GreaterThan"
    ELSE IF contents = <<"<">> THEN "LessThan"
    ELSE IF contents = <<">", "=">> THEN "GreaterThanOrEqual"
    ELSE IF contents = <<"<", "=">> THEN "LessThanOrEqual"
    ELSE IF contents = <<"=", "=">> THEN "Equal"
    ELSE IF contents = <<"!", "=">> THEN "NotEqual"
    ELSE "UnknownComparisonOperation"

\* parseComparison: one turn of its loop starts at the keyword at index, where
\* the iterator stands; comparisonType is "" until the first comparison
\* keyword has been read.
RECURSIVE parseComparisonFrom(_, _, _, _)
afterComparisonSecondArg(keywords, first, operator, second, comparisonType, unchainedComparisons) ==
    IF second.err.msg # NoError THEN conditionAndError(noCondition, second.err)
    ELSE parseComparisonFrom(keywords, second.index, comparisonType,
                             Append(unchainedComparisons,
                                    comparison(comparisonOperationOf(keywords[operator].contents),
                                               first.value, second.value)))

afterComparisonKeyword(keywords, first, operator, next, comparisonType, unchainedComparisons) ==
    IF next.err.msg # NoError THEN conditionAndError(noCondition, next.err)
    ELSE afterComparisonSecondArg(keywords, first, operator, parseRawValue(keywords, next.index),
                                  comparisonType, unchainedComparisons)

comparisonKeywordAt(keywords, first, operator, comparisonType, unchainedComparisons) ==
    IF keywords[operator].keywordType # "ComparisonSyntax"
    THEN conditionError("ExpectingComparisonSyntax", keywords[operator].location)
    ELSE IF comparisonType # "" /\ comparisonType # keywords[operator].contents[1]
    THEN conditionError("ComparisonsInChainMustMatch", keywords[operator].location)
    ELSE IF comparisonType = "!"
    THEN conditionError("CannotChainNotEqual", keywords[operator].location)
    ELSE afterComparisonKeyword(keywords, first, operator, nextNonEmpty(keywords, operator),
                                keywords[operator].contents[1], unchainedComparisons)

afterComparisonFirstArg(keywords, first, comparisonType, unchainedComparisons) ==
    IF first.err.msg # NoError THEN conditionAndError(noCondition, first.err)
    ELSE IF first.index + 1 > Len(keywords)
    THEN IF first.index = 1
         THEN conditionError("UnexpectedEndOfComparison", keywords[first.index].location)
         ELSE IF Len(unchainedComparisons) = 1
         THEN conditionAndError(unchainedComparisons[1], codeParsingError(NoError, ZeroLocation))
         ELSE conditionAndError(boolean(TRUE, unchainedComparisons),
                                codeParsingError(NoError, ZeroLocation))
    ELSE comparisonKeywordAt(keywords, first, first.index + 1, comparisonType,
                             unchainedComparisons)

parseComparisonFrom(keywords, index, comparisonType, unchainedComparisons) ==
    afterComparisonFirstArg(keywords, parseRawValue(keywords, index), comparisonType,
                            unchainedComparisons)

parseComparison(keywordList) == parseComparisonFrom(keywordList, 1, "", <<>>)

\* parseCondition and parseConditionClauses, which call each other.
RECURSIVE parseCondition(_)
RECURSIVE parseConditionClausesFrom(_, _, _, _)
afterConditionClause(clauses, createAndBooleanInsteadOfOr, i, conditionClauses, parsed) ==
    IF parsed.err.msg # NoError THEN conditionAndError(noCondition, parsed.err)
    ELSE parseConditionClausesFrom(clauses, createAndBooleanInsteadOfOr, i + 1,
                                   Append(conditionClauses, parsed.condition))

parseConditionClausesFrom(clauses, createAndBooleanInsteadOfOr, i, conditionClauses) ==
    IF i > Len(clauses)
    THEN conditionAndError(boolean(createAndBooleanInsteadOfOr, conditionClauses),
                           codeParsingError(NoError, ZeroLocation))
    ELSE afterConditionClause(clauses, createAndBooleanInsteadOfOr, i, conditionClauses,
                              parseCondition(clauses[i]))

parseConditionClauses(clauses, createAndBooleanInsteadOfOr) ==
    parseConditionClausesFrom(clauses, createAndBooleanInsteadOfOr, 1, <<>>)

singleKeywordCondition(keywords) ==
    IF keywords[1].keywordType # "BoolValue"
    THEN conditionError("ExpectedBoolValue", keywords[1].location)
    ELSE conditionAndError(booleanValue(keywords[1].contents = <<"t", "r", "u", "e">>),
                           codeParsingError(NoError, ZeroLocation))

afterOrSplit(keywords, orClauses) ==
    IF orClauses.err.msg # NoError THEN conditionAndError(noCondition, orClauses.err)
    ELSE IF Len(orClauses.clauses) > 1 THEN parseConditionClauses(orClauses.clauses, FALSE)
    ELSE IF Len(keywords) = 1 THEN singleKeywordCondition(keywords)
    ELSE parseComparison(keywords)

afterAndSplit(keywords, andClauses) ==
    IF andClauses.err.msg # NoError THEN conditionAndError(noCondition, andClauses.err)
    ELSE IF Len(andClauses.clauses) > 1 THEN parseConditionClauses(andClauses.clauses, TRUE)
    ELSE afterOrSplit(keywords, splitCondition(keywords, "Or"))

\* keywords[0] of an empty keyword list is an index out of range.
parseCondition(keywords) ==
    IF keywords = <<>> THEN conditionError(Panic, ZeroLocation)
    ELSE IF keywords[1].contents = <<"(">> /\ keywords[Len(keywords)].contents = <<")">>
    THEN parseCondition(SubSeq(keywords, 2, Len(keywords) - 1))
    ELSE afterAndSplit(keywords, splitCondition(keywords, "And"))

\* parseConditionalBlock: the keywords after the first one, up to the `{`.
keywordsAndError(keywords, err) == [keywords |-> keywords, err |-> err]

RECURSIVE conditionKeywordsFrom(_, _, _)
conditionKeywordsFrom(keywords, index, collected) ==
    IF keywords[index].contents = <<"{">>
    THEN keywordsAndError(collected, codeParsingError(NoError, ZeroLocation))
    ELSE IF index + 1 > Len(keywords)
    THEN keywordsAndError(<<>>, codeParsingError("UnexpectedEndOfKeywords",
                                                 keywords[index].location))
    ELSE conditionKeywordsFrom(keywords, index + 1, Append(collected, keywords[index]))

conditionKeywordsOf(keywords) ==
    IF Len(keywords) < 2
    THEN keywordsAndError(<<>>, codeParsingError("UnexpectedEndOfKeywords",
                                                 keywords[Len(keywords)].location))
    ELSE conditionKeywordsFrom(keywords, 2, <<>>)

(***************************************************************************)
(* The conditions of the model, as they are written in the source text     *)
(***************************************************************************)
\* An operand: its modifiers in the order they are written, and its name or
\* number.
operandText(modifiers, name) == [modifiers |-> modifiers, name |-> name]

\* A clause: a chain of operands with a comparison operator between each two,
\* or the single word true / false; it may be written in parentheses.
clauseText(operands, comparators, parenthesised) ==
    [operands |-> operands, comparators |-> comparators, parenthesised |-> parenthesised]

Comparators == {<<"<">>, <<"<", "=">>, <<">">>, <<"=", "=">>, <<"!", "=">>}

FirstOperands ==
    {operandText(<<>>, <<"a">>), operandText(<<"^">>, <<"a">>), operandText(<<>>, <<"0">>)}

MiddleOperands ==
    {operandText(modifiers, <<"b">>) : modifiers \in {<<>>, <<"^">>, <<"drop">>, <<"^", "^">>}}

LastOperands == {operandText(<<>>, <<"c">>)}

Chains ==
    {chain \in
        {clauseText(<<first, middle>>, <<cmp>>, FALSE) :
            first \in FirstOperands, middle \in MiddleOperands, cmp \in Comparators}
        \cup
        {clauseText(<<first, middle, last>>, <<cmp1, cmp2>>, FALSE) :
            first \in FirstOperands, middle \in MiddleOperands, last \in LastOperands,
            cmp1 \in Comparators, cmp2 \in Comparators} :
     Len(chain.comparators) <= MaxComparisons}

BoolClause(word) == clauseText(<<operandText(<<>>, word)>>, <<>>, FALSE)

SimpleClauses ==
    {BoolClause(<<"t", "r", "u", "e">>), BoolClause(<<"f", "a", "l", "s", "e">>),
     clauseText(<<operandText(<<>>, <<"a">>), operandText(<<>>, <<"b">>)>>, <<<<"<">>>>, FALSE)}

ParenthesisedClauses ==
    {clauseText(clause.operands, clause.comparators, TRUE) : clause \in SimpleClauses}

Connectives == {"and", "or"}

\* A condition: clauses with a connective between each two.
conditionTextOf(clauses, connectives) == [clauses |-> clauses, connectives |-> connectives]

ConditionTexts ==
    {condition \in
        {conditionTextOf(<<chain>>, <<>>) : chain \in Chains}
        \cup {conditionTextOf(<<clause>>, <<>>) :
                clause \in SimpleClauses \cup ParenthesisedClauses}
        \cup {conditionTextOf(<<c1, c2>>, <<k1>>) :
                c1 \in SimpleClauses \cup ParenthesisedClauses,
                c2 \in SimpleClauses \cup ParenthesisedClauses, k1 \in Connectives}
        \cup {conditionTextOf(<<c1, c2, c3>>, <<k1, k2>>) :
                c1 \in SimpleClauses, c2 \in SimpleClauses, c3 \in SimpleClauses,
                k1 \in Connectives, k2 \in Connectives} :
     Len(condition.clauses) <= MaxClauses}

\* The characters of a condition.
RECURSIVE modifiersCharacters(_)
modifiersCharacters(modifiers) ==
    IF modifiers = <<>> THEN <<>>
    ELSE (IF Head(modifiers) = "^" THEN <<"^">> ELSE <<"d", "r", "o", "p", " ">>)
         \o modifiersCharacters(Tail(modifiers))

operandCharacters(operand) == modifiersCharacters(operand.modifiers) \o operand.name

RECURSIVE chainCharacters(_, _)
chainCharacters(clause, i) ==
    operandCharacters(clause.operands[i])
    \o (IF i > Len(clause.comparators) THEN <<>>
        ELSE <<" ">> \o clause.comparators[i] \o <<" ">> \o chainCharacters(clause, i + 1))

clauseCharacters(clause) ==
    IF clause.parenthesised THEN <<"(">> \o chainCharacters(clause, 1) \o <<")">>
    ELSE chainCharacters(clause, 1)

connectiveCharacters(connective) ==
    IF connective = "and" THEN <<" ", "a", "n", "d", " ">> ELSE <<" ", "o", "r", " ">>

RECURSIVE conditionCharacters(_, _)
conditionCharacters(condition, i) ==
    clauseCharacters(condition.clauses[i])
    \o (IF i > Len(condition.connectives) THEN <<>>
        ELSE connectiveCharacters(condition.connectives[i])
             \o conditionCharacters(condition, i + 1))

\* The if statement with the condition, up to the start of its block.
ifStatementText(condition) ==
    <<"i", "f", " ">> \o conditionCharacters(condition, 1) \o <<" ", "{", "\n">>

CondIdle ==
    /\ condStage = "idle"
    /\ conditionText = conditionTextOf(<<>>, <<>>)
    /\ conditionKeywords = <<>>
    /\ conditionResult = conditionAndError(noCondition, codeParsingError(NoError, ZeroLocation))

CondInit ==
    /\ condStage = "lex"
    /\ conditionText \in ConditionTexts
    /\ code = ifStatementText(conditionText)
    /\ lexer = lexStart
    /\ conditionKeywords = <<>>
    /\ conditionResult = conditionAndError(noCondition, codeParsingError(NoError, ZeroLocation))
    /\ RegIdle
    /\ LinkIdle
    /\ ArgsIdle

\* codeToAssembly: lexCode; its errors are returned before anything is parsed.
LexCondition ==
    /\ condStage = "lex"
    /\ lexer' = lexCode(code)
    /\ IF lexer'.status = "returned" /\ lexer'.parsingErrors = <<>>
       THEN /\ condStage' = "collect"
            /\ conditionResult' = conditionResult
       ELSE /\ condStage' = "done"
            /\ conditionResult' =
                   conditionAndError(noCondition,
                                     IF lexer'.parsingErrors # <<>> THEN lexer'.parsingErrors[1]
                                     ELSE codeParsingError(Panic, ZeroLocation))
    /\ UNCHANGED <<outsideCond, code, conditionText, conditionKeywords>>

\* parseConditionalBlock: the keywords of the condition.
CollectConditionKeywords ==
    /\ condStage = "collect"
    /\ IF conditionKeywordsOf(lexer.keywords).err.msg # NoError
       THEN /\ condStage' = "done"
            /\ conditionKeywords' = conditionKeywords
            /\ conditionResult' = conditionAndError(noCondition,
                                                    conditionKeywordsOf(lexer.keywords).err)
       ELSE /\ condStage' = "parse"
            /\ conditionKeywords' = conditionKeywordsOf(lexer.keywords).keywords
            /\ conditionResult' = conditionResult
    /\ UNCHANGED <<outsideCond, lexVars, conditionText>>

\* parseConditionalBlock: parseCondition of these keywords.
ParseCondition ==
    /\ condStage = "parse"
    /\ condStage' = "done"
    /\ conditionResult' = parseCondition(conditionKeywords)
    /\ UNCHANGED <<outsideCond, lexVars, conditionText, conditionKeywords>>

CondNext ==
    \/ LexCondition
    \/ CollectConditionKeywords
    \/ ParseCondition

(***************************************************************************)
(* Properties of the parsed conditions                                     *)
(***************************************************************************)
\* The value an operand of the source text denotes.
operandValue(operand) ==
    IF operand.name \in {<<digit>> : digit \in DigitCharacters}
    THEN [kind |-> "PositiveInteger", name |-> "", variableIsDropped |-> FALSE,
          pointerDereferenceLayers |-> 0]
    ELSE [kind |-> "variable", name |-> nameOfContents(operand.name),
          variableIsDropped |-> (\E i \in DOMAIN operand.modifiers : operand.modifiers[i] = "drop"),
          pointerDereferenceLayers |->
              Cardinality({i \in DOMAIN operand.modifiers : operand.modifiers[i] = "^"})]

\* A parsed value and a parsed condition without the places in the text.
valueWithoutLocation(value) ==
    [kind |-> value.kind, name |-> value.name, variableIsDropped |-> value.variableIsDropped,
     pointerDereferenceLayers |-> value.pointerDereferenceLayers]

RECURSIVE withoutLocations(_)
withoutLocations(condition) ==
    IF condition.kind = "comparison"
    THEN comparison(condition.operator, valueWithoutLocation(condition.leftValue),
                    valueWithoutLocation(condition.rightValue))
    ELSE IF condition.kind = "boolean"
    THEN boolean(condition.isAndInsteadOfOr,
                 [i \in DOMAIN condition.conditions |-> withoutLocations(condition.conditions[i])])
    ELSE condition

\* The comparison of the operands i and i + 1 of a chain.
pairOf(clause, i) ==
    comparison(comparisonOperationOf(clause.comparators[i]), operandValue(clause.operands[i]),
               operandValue(clause.operands[i + 1]))

\* What a clause without a chain means: a boolean value or one comparison.
clauseMeaning(clause) ==
    IF clause.comparators = <<>>
    THEN booleanValue(clause.operands[1].name = <<"t", "r", "u", "e">>)
    ELSE pairOf(clause, 1)

ParsedAs(condition) ==
    /\ conditionResult.err.msg = NoError
    /\ withoutLocations(conditionResult.condition) = condition

\* The condition is `A and B or C` without parentheses.
AndThenOr ==
    /\ condStage = "done"
    /\ Len(conditionText.clauses) = 3
    /\ conditionText.connectives = <<"and", "or">>

\* C8: `A and B or C` is parsed as the disjunction of (A and B) with C.
C8_AndBeforeOr ==
    AndThenOr =>
        ParsedAs(boolean(FALSE, <<boolean(TRUE, <<clauseMeaning(conditionText.clauses[1]),
                                                  clauseMeaning(conditionText.clauses[2])>>),
                                  clauseMeaning(conditionText.clauses[3])>>))

\* The condition is one chain of comparisons with n comparison operators of
\* one family: the operators start with the same character, which is not `!`
\* when there is more than one.
ChainOf(n) ==
    /\ condStage = "done"
    /\ Len(conditionText.clauses) = 1
    /\ ~conditionText.clauses[1].parenthesised
    /\ Len(conditionText.clauses[1].comparators) = n
    /\ \A i \in 2 .. n :
          /\ conditionText.clauses[1].comparators[i][1] = conditionText.clauses[1].comparators[1][1]
          /\ conditionText.clauses[1].comparators[1][1] # "!"

\* C9: the chain `a cmp1 b cmp2 c` is parsed as (a cmp1 b) and (b cmp2 c), the
\* middle operand with its modifiers in both; a chain with one comparison
\* operator is parsed as that comparison.
C9_ChainIsConjunctionOfPairs ==
    /\ ChainOf(1) => ParsedAs(pairOf(conditionText.clauses[1], 1))
    /\ ChainOf(2) => ParsedAs(boolean(TRUE, <<pairOf(conditionText.clauses[1], 1),
                                              pairOf(conditionText.clauses[1], 2)>>))

\* The condition is n clauses, each of them in parentheses of its own.
ParenthesisedClausesOnly(n) ==
    /\ condStage = "done"
    /\ Len(conditionText.clauses) = n
    /\ \A i \in 1 .. n : conditionText.clauses[i].parenthesised

\* C22: the parentheses at the two ends of a condition are removed only
\* when they are one pair: `(A)` is parsed as A, and `(A) and (B)`,
\* `(A) or (B)` are parsed as the conjunction, the disjunction of A and B.
C22_OnlyMatchingParenthesesRemoved ==
    /\ ParenthesisedClausesOnly(1) => ParsedAs(clauseMeaning(conditionText.clauses[1]))
    /\ ParenthesisedClausesOnly(2)
           => ParsedAs(boolean(conditionText.connectives[1] = "and",
                               <<clauseMeaning(conditionText.clauses[1]),
                                 clauseMeaning(conditionText.clauses[2])>>))

(***************************************************************************)
(* Operands (compiler.go: commonAssemblyRegisterToX86Register,             *)
(* convertValueToAssembly for a variable, the mov of a call argument)      *)
(***************************************************************************)
MaxDereferenceLayers == 2   \* `^` before a variable
MaxNumberValue == 2         \* the numbers moved into an argument register

commonAssemblyRegisterToX86Register(registerIndex) ==
    CASE registerIndex = 0 -> <<"%", "r", "a", "x">>
      [] registerIndex = 1 -> <<"%", "r", "b", "x">>
      [] registerIndex = 2 -> <<"%", "r", "c", "x">>
      [] registerIndex = 3 -> <<"%", "r", "d", "x">>
      [] registerIndex = 4 -> <<"%", "r", "s", "i">>
      [] registerIndex = 5 -> <<"%", "r", "d", "i">>
      [] registerIndex = 6 -> <<"%", "r", "8">>
      [] registerIndex = 7 -> <<"%", "r", "9">>
      [] registerIndex = 8 -> <<"%", "r", "1", "0">>
      [] registerIndex = 9 -> <<"%", "r", "1", "1">>
      [] registerIndex = 10 -> <<"%", "r", "1", "2">>
      [] registerIndex = 11 -> <<"%", "r", "1", "3">>
      [] registerIndex = 12 -> <<"%", "r", "1", "4">>
      [] registerIndex = 13 -> <<"%", "r", "1", "5">>
      [] registerIndex = 14 -> <<"%", "r", "s", "p">>
      [] registerIndex = 15 -> <<"%", "e", "b", "p">>

\* strings.Repeat
RECURSIVE Repeat(_, _)
Repeat(text, count) == IF count = 0 THEN <<>> ELSE text \o Repeat(text, count - 1)

\* convertValueToAssembly, case variableValue, after the register was found.
registerOperand(registerNumber, pointerDereferenceLayers) ==
    Repeat(<<"(">>, pointerDereferenceLayers)
    \o commonAssemblyRegisterToX86Register(registerNumber)
    \o Repeat(<<")">>, pointerDereferenceLayers)

\* convertValueToAssembly, case numberValue.
numberOperand(value) == <<"$">> \o Itoa(value)

\* compileFunctionCallArguments: the mov of one argument.
argumentMove(argValue, argRegister) ==
    <<"\n", "m", "o", "v", " ">> \o argValue \o <<",", " ">>
    \o commonAssemblyRegisterToX86Register(argRegister)

operandState(position, register, pointerDereferenceLayers, assembly) ==
    [stage |-> position, register |-> register,
     pointerDereferenceLayers |-> pointerDereferenceLayers, assembly |-> assembly]

OperandIdle == lowered = operandState("idle", 0, 0, <<>>)

OperandInit ==
    /\ lowered \in {operandState("value", register, layers, <<>>) :
                        register \in Registers, layers \in 0 .. MaxDereferenceLayers}
    /\ RegIdle
    /\ LinkIdle
    /\ LexIdle
    /\ ArgsIdle
    /\ CondIdle

\* The variable bound to the register is used as a value.
ConvertVariableValue ==
    /\ lowered.stage = "value"
    /\ lowered' = [lowered EXCEPT !.stage = "converted",
                                  !.assembly = registerOperand(lowered.register,
                                                               lowered.pointerDereferenceLayers)]
    /\ UNCHANGED outsideOperand

\* The register is named by a call argument whose value is a number.
MoveNumberToRegister ==
    /\ lowered.stage = "converted"
    /\ \E value \in 0 .. MaxNumberValue :
          lowered' = [lowered EXCEPT !.stage = "moved",
                                    !.assembly = argumentMove(numberOperand(value),
                                                              lowered.register)]
    /\ UNCHANGED outsideOperand

OperandNext ==
    \/ ConvertVariableValue
    \/ MoveNumberToRegister

\* The mnemonics of the registers r0 .. r15, in this order.
X86Registers ==
    << <<"%", "r", "a", "x">>, <<"%", "r", "b", "x">>, <<"%", "r", "c", "x">>,
       <<"%", "r", "d", "x">>, <<"%", "r", "s", "i">>, <<"%", "r", "d", "i">>,
       <<"%", "r", "8">>, <<"%", "r", "9">>, <<"%", "r", "1", "0">>, <<"%", "r", "1", "1">>,
       <<"%", "r", "1", "2">>, <<"%", "r", "1", "3">>, <<"%", "r", "1", "4">>,
       <<"%", "r", "1", "5">>, <<"%", "r", "s", "p">>, <<"%", "r", "b", "p">> >>

\* The register named in the assembly text of the operand: the text without
\* the parentheses around it, or the text after the comma of a mov.
RECURSIVE afterComma(_)
afterComma(text) ==
    IF text = <<>> THEN <<>>
    ELSE IF Head(text) = "," THEN Tail(Tail(text))
    ELSE afterComma(Tail(text))

RegisterInAssembly ==
    IF lowered.stage = "moved" THEN afterComma(lowered.assembly)
    ELSE SubSeq(lowered.assembly, lowered.pointerDereferenceLayers + 1,
                Len(lowered.assembly) - lowered.pointerDereferenceLayers)

\* C13: register i is written as the i-th of %rax, %rbx, %rcx, %rdx, %rsi,
\* %rdi, %r8 .. %r15, %rsp, %rbp, and no two registers are written alike.
C13_RegistersMapOntoX86Registers ==
    /\ lowered.stage \in {"converted", "moved"}
           => RegisterInAssembly = X86Registers[lowered.register + 1]
    /\ \A r1, r2 \in Registers :
           r1 # r2 => commonAssemblyRegisterToX86Register(r1)
                         # commonAssemblyRegisterToX86Register(r2)

(***************************************************************************)
(* Branching component: conditionToAssembly and the execution of the       *)
(* assembly it returns                                                     *)
(*                                                                         *)
(* The assembly is a sequence of instructions, one for each line of the    *)
(* text conditionToAssembly returns; the operands of an instruction are    *)
(* the texts convertValueToAssembly returns.  A register holds 64 bits,    *)
(* kept as its high and its low 32 bits.                                   *)
(***************************************************************************)
numberValue(value) == [kind |-> "number", value |-> value]

instruction(mnemonic, operands) == [mnemonic |-> mnemonic, operands |-> operands]

\* "\n" + afterConditionJumpLabel + ":"
labelDefinition(jumpLabel) == instruction("label", <<jumpLabel>>)

assemblyAndError(assembly, jumps, err) ==
    [assembly |-> assembly, numberOfJumps |-> jumps, err |-> err]

\* convertValueToAssembly for a variable that is not dropped and for a number.
operandAssembly(regs, value) ==
    IF value.kind = "variable"
    THEN registerOperand(FindRegister(regs, value.name), value.pointerDereferenceLayers)
    ELSE numberOperand(value.value)

\* case booleanValue
booleanValueToAssembly(condition, jumpToOnTrue, jumpToOnFalse, jumps) ==
    IF condition.value
    THEN IF jumpToOnTrue = <<>> THEN assemblyAndError(<<>>, jumps, NoError)
         ELSE assemblyAndError(<<instruction("jmp", <<jumpToOnTrue>>)>>, jumps, NoError)
    ELSE IF jumpToOnFalse = <<>> THEN assemblyAndError(<<>>, jumps, NoError)
         ELSE assemblyAndError(<<instruction("jmp", <<jumpToOnFalse>>)>>, jumps, NoError)

\* case comparison: the operator after the operands were flipped
flippedOperator(operator) ==
    CASE operator = "LessThan" -> "GreaterThan"
      [] operator = "GreaterThan" -> "LessThan"
      [] operator = "LessThanOrEqual" -> "GreaterThanOrEqual"
      [] operator = "GreaterThanOrEqual" -> "LessThanOrEqual"
      [] OTHER -> operator

jumpOnTrueCmp(operator) ==
    CASE operator = "GreaterThan" -> "jl"
      [] operator = "GreaterThanOrEqual" -> "jle"
      [] operator = "LessThan" -> "jg"
      [] operator = "LessThanOrEqual" -> "jge"
      [] operator = "Equal" -> "je"
      [] operator = "NotEqual" -> "jne"

jumpOnFalseCmp(operator) ==
    CASE operator = "GreaterThan" -> "jge"
      [] operator = "GreaterThanOrEqual" -> "jg"
      [] operator = "LessThan" -> "jle"
      [] operator = "LessThanOrEqual" -> "jl"
      [] operator = "Equal" -> "jne"
      [] operator = "NotEqual" -> "je"

jumpsOfComparison(operator, jumpToOnTrue, jumpToOnFalse) ==
    IF jumpToOnTrue # <<>>
    THEN <<instruction(jumpOnTrueCmp(operator), <<jumpToOnTrue>>)>>
         \o (IF jumpToOnFalse # <<>> THEN <<instruction("jmp", <<jumpToOnFalse>>)>> ELSE <<>>)
    ELSE IF jumpToOnFalse # <<>>
    THEN <<instruction(jumpOnFalseCmp(operator), <<jumpToOnFalse>>)>>
    ELSE <<>>

cmpAndJumps(regs, operator, leftValue, rightValue, jumpToOnTrue, jumpToOnFalse, jumps) ==
    assemblyAndError(
        <<instruction("cmp", <<operandAssembly(regs, leftValue),
                               operandAssembly(regs, rightValue)>>)>>
        \o jumpsOfComparison(operator, jumpToOnTrue, jumpToOnFalse),
        jumps, NoError)

comparisonToAssembly(regs, condition, jumpToOnTrue, jumpToOnFalse, jumps) ==
    IF ~isValidLastOperandForMoveAndCmpInstructions(condition.rightValue)
    THEN IF ~isValidLastOperandForMoveAndCmpInstructions(condition.leftValue)
         THEN assemblyAndError(<<>>, jumps, "ComparisonNeedsVariable")
         ELSE cmpAndJumps(regs, flippedOperator(condition.operator), condition.rightValue,
                          condition.leftValue, jumpToOnTrue, jumpToOnFalse, jumps)
    ELSE cmpAndJumps(regs, condition.operator, condition.leftValue, condition.rightValue,
                     jumpToOnTrue, jumpToOnFalse, jumps)

\* case boolean: the targets of the clauses before the last one
jumpToOnClause(isTarget, jumpTo, afterConditionJumpLabel) ==
    IF ~isTarget THEN <<>>
    ELSE IF jumpTo # <<>> THEN jumpTo
    ELSE afterConditionJumpLabel

RECURSIVE conditionToAssembly(_, _, _, _, _)
RECURSIVE clausesToAssembly(_, _, _, _, _, _, _, _)
afterClause(clause, regs, condition, i, jumpToOnTrue, jumpToOnFalse, afterConditionJumpLabel, emitted) ==
    IF clause.err # NoError THEN assemblyAndError(<<>>, clause.numberOfJumps, clause.err)
    ELSE clausesToAssembly(regs, condition, i + 1, jumpToOnTrue, jumpToOnFalse,
                           afterConditionJumpLabel, clause.numberOfJumps, emitted \o clause.assembly)

clausesToAssembly(regs, condition, i, jumpToOnTrue, jumpToOnFalse, afterConditionJumpLabel, jumps, emitted) ==
    IF i > Len(condition.conditions)
    THEN assemblyAndError(emitted \o <<labelDefinition(afterConditionJumpLabel)>>, jumps, NoError)
    ELSE afterClause(
             IF i = Len(condition.conditions)
             THEN conditionToAssembly(regs, condition.conditions[i], jumpToOnTrue,
                                      jumpToOnFalse, jumps)
             ELSE conditionToAssembly(
                      regs, condition.conditions[i],
                      jumpToOnClause(~condition.isAndInsteadOfOr, jumpToOnTrue,
                                     afterConditionJumpLabel),
                      jumpToOnClause(condition.isAndInsteadOfOr, jumpToOnFalse,
                                     afterConditionJumpLabel),
                      jumps),
             regs, condition, i, jumpToOnTrue, jumpToOnFalse, afterConditionJumpLabel, emitted)

conditionToAssembly(regs, condition, jumpToOnTrue, jumpToOnFalse, jumps) ==
    IF condition.kind = "booleanValue"
    THEN booleanValueToAssembly(condition, jumpToOnTrue, jumpToOnFalse, jumps)
    ELSE IF condition.kind = "boolean"
    THEN clausesToAssembly(regs, condition, 1, jumpToOnTrue, jumpToOnFalse,
                           jumpLabelNumbered(jumps + 1), jumps + 1, <<>>)
    ELSE comparisonToAssembly(regs, condition, jumpToOnTrue, jumpToOnFalse, jumps)

\* ---- the conditions lowered ----
ComparisonOperators ==
    {"GreaterThan", "GreaterThanOrEqual", "LessThan", "LessThanOrEqual", "Equal", "NotEqual"}

VariableA == variableValue("a", FALSE, 0, SomeLocation)
VariableB == variableValue("b", FALSE, 0, SomeLocation)

NumberValues == {numberValue(value) : value \in 0 .. MaxNumberValue}

\* The pairs of operands with at least one variable.
OperandPairs ==
    {<<VariableA, VariableB>>, <<VariableB, VariableA>>}
    \cup {<<VariableA, number>> : number \in NumberValues}
    \cup {<<number, VariableA>> : number \in NumberValues}

Comparisons ==
    {comparison(operator, pair[1], pair[2]) : operator \in ComparisonOperators, pair \in OperandPairs}

\* The clauses the conditions with `and` and `or` are made of.
Clauses ==
    { booleanValue(TRUE), booleanValue(FALSE),
      comparison("LessThan", VariableA, VariableB),
      comparison("GreaterThanOrEqual", VariableA, numberValue(1)),
      comparison("NotEqual", numberValue(0), VariableA) }

TwoClauses == {<<first, second>> : first \in Clauses, second \in Clauses}

FlatConditions == {boolean(isAnd, clauses) : isAnd \in BOOLEAN, clauses \in TwoClauses}

NestedConditions ==
    {boolean(isAnd, <<inner, clause>>) : isAnd \in BOOLEAN, inner \in FlatConditions, clause \in Clauses}
    \cup {boolean(isAnd, <<clause, inner>>) : isAnd \in BOOLEAN, inner \in FlatConditions, clause \in Clauses}

BranchConditions ==
    {booleanValue(TRUE), booleanValue(FALSE)} \cup Comparisons \cup FlatConditions
    \cup NestedConditions

\* The jump labels of the caller; one of the two may be empty.
TrueLabel == <<"y", "e", "s">>
FalseLabel == <<"n", "o">>
TargetPairs == {<<TrueLabel, FalseLabel>>, <<TrueLabel, <<>> >>, << <<>>, FalseLabel>>}

\* ---- the registers ----
wide(high, low) == [high |-> high, low |-> low]

\* 0, 1 and 2^32
RegisterContents == {wide(0, 0), wide(0, 1), wide(1, 0)}

\* a is bound to register registerOfA, b to r1.
RegistersOfA == {0, 2, 15}

branchRegisters(registerOfA) ==
    [r \in Registers |->
        individualRegisterState(IF r = registerOfA THEN "a" ELSE IF r = 1 THEN "b" ELSE "",
                                FALSE, TRUE)]

branchState(position, condition, targets, registerOfA, contents, assembly, index, flags, at) ==
    [stage |-> position, condition |-> condition, jumpToOnTrue |-> targets[1],
     jumpToOnFalse |-> targets[2], registerOfA |-> registerOfA, contents |-> contents,
     assembly |-> assembly, index |-> index, flags |-> flags, at |-> at]

NoFlags == [less |-> FALSE, equal |-> FALSE]

BranchIdle ==
    branch = branchState("idle", booleanValue(TRUE), << <<>>, <<>> >>, 0,
                         [a |-> wide(0, 0), b |-> wide(0, 0)], <<>>, 0,
                         NoFlags, <<>>)

BranchInit ==
    /\ branch \in {branchState("condition", condition, targets, registerOfA,
                               [a |-> contentsOfA, b |-> wide(0, 1)], <<>>, 0, NoFlags, <<>>) :
                      condition \in BranchConditions, targets \in TargetPairs,
                      registerOfA \in RegistersOfA, contentsOfA \in RegisterContents}
    /\ RegIdle
    /\ LinkIdle
    /\ LexIdle
    /\ ArgsIdle
    /\ CondIdle
    /\ OperandIdle

\* ---- the execution of the assembly ----
LowHalfOfRbp == <<"%", "e", "b", "p">>

isImmediate(text) == text[1] = "$"

\* The bits of the register named by an operand.
operandBits(text) == IF text = LowHalfOfRbp THEN 32 ELSE 64

registerNamed(text) ==
    IF text = LowHalfOfRbp THEN 15
    ELSE CHOOSE r \in Registers : X86Registers[r + 1] = text

immediateNamed(text) == CHOOSE value \in 0 .. MaxNumberValue : numberOperand(value) = text

\* What the register holds: the variable bound to it.
operandContents(text) ==
    IF isImmediate(text) THEN wide(0, immediateNamed(text))
    ELSE IF registerNamed(text) = branch.registerOfA THEN branch.contents.a
    ELSE branch.contents.b

\* Two registers of a cmp have the same number of bits.
sameBits(first, second) ==
    isImmediate(first) \/ isImmediate(second) \/ operandBits(first) = operandBits(second)

cmpBits(first, second) ==
    IF (~isImmediate(first) /\ operandBits(first) = 32)
       \/ (~isImmediate(second) /\ operandBits(second) = 32)
    THEN 32 ELSE 64

lessThan(x, y, bits) ==
    IF bits = 32 THEN x.low < y.low
    ELSE x.high < y.high \/ (x.high = y.high /\ x.low < y.low)

equalTo(x, y, bits) ==
    IF bits = 32 THEN x.low = y.low ELSE x = y

\* cmp first, second compares the second operand with the first.
flagsOfCmp(first, second) ==
    [less |-> lessThan(operandContents(second), operandContents(first), cmpBits(first, second)),
     equal |-> equalTo(operandContents(second), operandContents(first), cmpBits(first, second))]

jumpTaken(mnemonic, flags) ==
    CASE mnemonic = "jmp" -> TRUE
      [] mnemonic = "jl" -> flags.less
      [] mnemonic = "jle" -> flags.less \/ flags.equal
      [] mnemonic = "jg" -> ~flags.less /\ ~flags.equal
      [] mnemonic = "jge" -> ~flags.less
      [] mnemonic = "je" -> flags.equal
      [] mnemonic = "jne" -> ~flags.equal

JumpMnemonics == {"jmp", "jl", "jle", "jg", "jge", "je", "jne"}

Executing ==
    /\ branch.stage = "run"
    /\ branch.index < Len(branch.assembly)

executed == branch.assembly[branch.index + 1]

DefinedAt(jumpLabel) ==
    {i \in 1 .. Len(branch.assembly) : branch.assembly[i] = labelDefinition(jumpLabel)}

LowerCondition ==
    /\ branch.stage = "condition"
    /\ branch' = [branch EXCEPT
                    !.stage = "run",
                    !.assembly = conditionToAssembly(branchRegisters(branch.registerOfA),
                                                     branch.condition, branch.jumpToOnTrue,
                                                     branch.jumpToOnFalse, 0).assembly]
    /\ UNCHANGED outsideBranch

CompareOperands ==
    /\ Executing
    /\ executed.mnemonic = "cmp"
    /\ sameBits(executed.operands[1], executed.operands[2])
    /\ branch' = [branch EXCEPT !.flags = flagsOfCmp(executed.operands[1], executed.operands[2]),
                                !.index = @ + 1]
    /\ UNCHANGED outsideBranch

\* The assembler does not accept a cmp of a 64-bit and a 32-bit register.
RejectComparison ==
    /\ Executing
    /\ executed.mnemonic = "cmp"
    /\ ~sameBits(executed.operands[1], executed.operands[2])
    /\ branch' = [branch EXCEPT !.stage = "rejected"]
    /\ UNCHANGED outsideBranch

JumpInside ==
    /\ Executing
    /\ executed.mnemonic \in JumpMnemonics
    /\ jumpTaken(executed.mnemonic, branch.flags)
    /\ \E i \in DefinedAt(executed.operands[1]) :
          branch' = [branch EXCEPT !.index = i - 1]
    /\ UNCHANGED outsideBranch

JumpOutside ==
    /\ Executing
    /\ executed.mnemonic \in JumpMnemonics
    /\ jumpTaken(executed.mnemonic, branch.flags)
    /\ DefinedAt(executed.operands[1]) = {}
    /\ branch' = [branch EXCEPT !.stage = "done", !.at = executed.operands[1]]
    /\ UNCHANGED outsideBranch

SkipJump ==
    /\ Executing
    /\ executed.mnemonic \in JumpMnemonics
    /\ ~jumpTaken(executed.mnemonic, branch.flags)
    /\ branch' = [branch EXCEPT !.index = @ + 1]
    /\ UNCHANGED outsideBranch

PassLabel ==
    /\ Executing
    /\ executed.mnemonic = "label"
    /\ branch' = [branch EXCEPT !.index = @ + 1]
    /\ UNCHANGED outsideBranch

\* The instruction after the assembly of the condition is reached.
FallThrough ==
    /\ branch.stage = "run"
    /\ branch.index = Len(branch.assembly)
    /\ branch' = [branch EXCEPT !.stage = "done", !.at = <<>>]
    /\ UNCHANGED outsideBranch

BranchNext ==
    \/ LowerCondition
    \/ CompareOperands
    \/ RejectComparison
    \/ JumpInside
    \/ JumpOutside
    \/ SkipJump
    \/ PassLabel
    \/ FallThrough

\* ---- what the condition says ----
valueOfOperand(value) ==
    IF value.kind = "number" THEN wide(0, value.value)
    ELSE IF value.name = "a" THEN branch.contents.a
    ELSE branch.contents.b

comparisonHolds(operator, left, right) ==
    CASE operator = "LessThan" -> lessThan(left, right, 64)
      [] operator = "LessThanOrEqual" -> lessThan(left, right, 64) \/ left = right
      [] operator = "GreaterThan" -> lessThan(right, left, 64)
      [] operator = "GreaterThanOrEqual" -> lessThan(right, left, 64) \/ left = right
      [] operator = "Equal" -> left = right
      [] operator = "NotEqual" -> left # right

RECURSIVE conditionHolds(_)
conditionHolds(condition) ==
    IF condition.kind = "booleanValue" THEN condition.value
    ELSE IF condition.kind = "comparison"
    THEN comparisonHolds(condition.operator, valueOfOperand(condition.leftValue),
                         valueOfOperand(condition.rightValue))
    ELSE IF condition.isAndInsteadOfOr
    THEN \A i \in 1 .. Len(condition.conditions) : conditionHolds(condition.conditions[i])
    ELSE \E i \in 1 .. Len(condition.conditions) : conditionHolds(condition.conditions[i])

\* C20: the assembly of a condition can be executed, and its execution ends
\* at jumpToOnTrue when the condition is true and at jumpToOnFalse when it is
\* false; an empty target is the instruction after the assembly.
C20_JumpsWhereConditionSays ==
    /\ branch.stage # "rejected"
    /\ branch.stage = "done"
           => branch.at = IF conditionHolds(branch.condition) THEN branch.jumpToOnTrue
                          ELSE branch.jumpToOnFalse

(***************************************************************************)
(* Loops and branches: compileBlockToAssembly for while loops, if/else,    *)
(* break and continue, and the execution of the assembly it returns.       *)
(* The statements between them are a++ and b++, with a bound to r0 and b   *)
(* to r1; the execution keeps the order in which they were executed.       *)
(***************************************************************************)
MaxCount == 3        \* a register is incremented up to this value

incrementBy1(name) == [kind |-> "mutation", name |-> name]
whileLoop(condition, loopBody) ==
    [kind |-> "whileLoop", condition |-> condition, loopBody |-> loopBody]
ifElseStatement(condition, ifBlock, elseBlock) ==
    [kind |-> "ifElseStatement", condition |-> condition, ifBlock |-> ifBlock,
     elseBlock |-> elseBlock]
breakStatement == [kind |-> "breakStatement"]
continueStatement == [kind |-> "continueStatement"]

KeywordsSwapped(continueAssembly, breakAssembly) ==
    [continueAssembly |-> breakAssembly, breakAssembly |-> continueAssembly]

assemblyForControlFlowKeywords(continueAssembly, breakAssembly) ==
    [continueAssembly |-> continueAssembly, breakAssembly |-> breakAssembly]

\* compileVariableMutation("inc", nil, ...) for a variable that is bound
incrementAssembly(regs, name) ==
    <<instruction("inc", <<registerOperand(FindRegister(regs, name), 0)>>)>>

RECURSIVE compileBlockToAssembly(_, _, _, _, _, _)

\* case whileLoop: after the loop body was compiled
afterLoopBody(body, block, i, regs, controlFlow, assembly, bodyLabel, conditionLabel, endLabel) ==
    IF body.err # NoError THEN assemblyAndError(<<>>, body.numberOfJumps, body.err)
    ELSE compileBlockToAssembly(
             block, i + 1, regs, controlFlow,
             conditionToAssembly(regs, block[i].condition, bodyLabel, <<>>,
                                 body.numberOfJumps).numberOfJumps,
             assembly \o <<instruction("jmp", <<conditionLabel>>), labelDefinition(bodyLabel)>>
                 \o body.assembly \o <<labelDefinition(conditionLabel)>>
                 \o conditionToAssembly(regs, block[i].condition, bodyLabel, <<>>,
                                        body.numberOfJumps).assembly
                 \o <<labelDefinition(endLabel)>>)

\* case ifElseStatement: after the else block was compiled
afterElseBlock(elseBody, block, i, regs, controlFlow, assembly, ifCheck, ifBody, elseLabel, endLabel) ==
    IF elseBody.err # NoError THEN assemblyAndError(<<>>, elseBody.numberOfJumps, elseBody.err)
    ELSE compileBlockToAssembly(
             block, i + 1, regs, controlFlow, elseBody.numberOfJumps,
             assembly \o ifCheck.assembly \o ifBody.assembly
                 \o <<instruction("jmp", <<endLabel>>), labelDefinition(elseLabel)>>
                 \o elseBody.assembly \o <<labelDefinition(endLabel)>>)

\* case ifElseStatement: after the if block was compiled
afterIfBlock(ifBody, block, i, regs, controlFlow, assembly, ifCheck, elseLabel) ==
    IF ifBody.err # NoError THEN assemblyAndError(<<>>, ifBody.numberOfJumps, ifBody.err)
    ELSE IF Len(block[i].elseBlock) > 0
    THEN afterElseBlock(
             compileBlockToAssembly(block[i].elseBlock, 1,
                                    parseRegisterStatesToInnerScope(regs), controlFlow,
                                    ifBody.numberOfJumps + 1, <<>>),
             block, i, regs, controlFlow, assembly, ifCheck, ifBody, elseLabel,
             jumpLabelNumbered(ifBody.numberOfJumps + 1))
    ELSE compileBlockToAssembly(
             block, i + 1, regs, controlFlow, ifBody.numberOfJumps,
             assembly \o ifCheck.assembly \o ifBody.assembly \o <<labelDefinition(elseLabel)>>)

afterIfCheck(ifCheck, block, i, regs, controlFlow, assembly, elseLabel) ==
    IF ifCheck.err # NoError THEN assemblyAndError(<<>>, ifCheck.numberOfJumps, ifCheck.err)
    ELSE afterIfBlock(
             compileBlockToAssembly(block[i].ifBlock, 1,
                                    parseRegisterStatesToInnerScope(regs), controlFlow,
                                    ifCheck.numberOfJumps, <<>>),
             block, i, regs, controlFlow, assembly, ifCheck, elseLabel)

controlFlowStatement(keywordAssembly, message, block, i, regs, controlFlow, jumps, assembly) ==
    IF keywordAssembly = <<>> THEN assemblyAndError(<<>>, jumps, message)
    ELSE compileBlockToAssembly(block, i + 1, regs, controlFlow, jumps,
                                assembly \o keywordAssembly)

compileBlockToAssembly(block, i, regs, controlFlow, jumps, assembly) ==
    IF i > Len(block) THEN assemblyAndError(assembly, jumps, NoError)
    ELSE IF block[i].kind = "mutation"
    THEN compileBlockToAssembly(block, i + 1, regs, controlFlow, jumps,
                                assembly \o incrementAssembly(regs, block[i].name))
    ELSE IF block[i].kind = "whileLoop"
    THEN afterLoopBody(
             compileBlockToAssembly(
                 block[i].loopBody, 1, parseRegisterStatesToInnerScope(regs),
                 assemblyForControlFlowKeywords(
                     <<instruction("jmp", <<jumpLabelNumbered(jumps + 2)>>)>>,
                     <<instruction("jmp", <<jumpLabelNumbered(jumps + 3)>>)>>),
                 jumps + 3, <<>>),
             block, i, regs, controlFlow, assembly, jumpLabelNumbered(jumps + 1),
             jumpLabelNumbered(jumps + 2), jumpLabelNumbered(jumps + 3))
    ELSE IF block[i].kind = "ifElseStatement"
    THEN afterIfCheck(
             conditionToAssembly(regs, block[i].condition, <<>>,
                                 jumpLabelNumbered(jumps + 1), jumps + 1),
             block, i, regs, controlFlow, assembly, jumpLabelNumbered(jumps + 1))
    ELSE IF block[i].kind = "breakStatement"
    THEN controlFlowStatement(controlFlow.breakAssembly, "BreakNotValidInThisScope",
                              block, i, regs, controlFlow, jumps, assembly)
    ELSE controlFlowStatement(controlFlow.continueAssembly, "ContinueNotValidInThisScope",
                              block, i, regs, controlFlow, jumps, assembly)

\* ---- the blocks compiled ----
IncrementA == incrementBy1("a")
IncrementB == incrementBy1("b")

ABelow(value) == comparison("LessThan", VariableA, numberValue(value))

LoopConditions == {booleanValue(TRUE), ABelow(2)}
IfConditions == {booleanValue(TRUE), ABelow(1), comparison("Equal", VariableB, numberValue(1))}

\* The blocks without a loop or branch in them.
Leaves ==
    { <<IncrementA>>, <<IncrementB>>, <<breakStatement>>, <<continueStatement>>,
      <<IncrementA, breakStatement>>, <<IncrementB, continueStatement>> }

Branches ==
    {ifElseStatement(condition, ifBlock, elseBlock) :
        condition \in IfConditions, ifBlock \in Leaves, elseBlock \in Leaves \cup {<<>>}}

\* A loop inside the loop: a branch in its body.
InnerLoops ==
    {whileLoop(condition, <<IncrementB, inner, IncrementA>>) :
        condition \in LoopConditions,
        inner \in {ifElseStatement(ABelow(1), ifBlock, elseBlock) :
                       ifBlock \in {<<breakStatement>>, <<continueStatement>>},
                       elseBlock \in {<<>>, <<breakStatement>>, <<continueStatement>>}}}

\* A branch in the loop with a loop in it.
BranchesWithLoop ==
    {ifElseStatement(ABelow(1), <<whileLoop(booleanValue(TRUE), leaf)>>, elseBlock) :
        leaf \in {<<breakStatement>>, <<IncrementB, breakStatement>>},
        elseBlock \in {<<breakStatement>>, <<continueStatement>>}}

LoopBlocks ==
    {<<whileLoop(condition, <<IncrementA, inner, IncrementB>>), IncrementB>> :
        condition \in LoopConditions, inner \in Branches \cup InnerLoops \cup BranchesWithLoop}

\* ---- what the block does, statement by statement ----
\* signal: "end" (the block ended), "break", "continue", or "stop" (a register
\* reached MaxCount, or the fuel ran out)
blockResult(signal, a, b, trace, fuel) ==
    [signal |-> signal, a |-> a, b |-> b, trace |-> trace, fuel |-> fuel]

holdsIn(condition, result) ==
    IF condition.kind = "booleanValue" THEN condition.value
    ELSE comparisonHolds(
             condition.operator,
             wide(0, IF condition.leftValue.name = "a" THEN result.a ELSE result.b),
             wide(0, condition.rightValue.value))

incremented(name, result) ==
    IF name = "a"
    THEN IF result.a >= MaxCount THEN [result EXCEPT !.signal = "stop"]
         ELSE [result EXCEPT !.a = @ + 1, !.trace = Append(@, "a")]
    ELSE IF result.b >= MaxCount THEN [result EXCEPT !.signal = "stop"]
         ELSE [result EXCEPT !.b = @ + 1, !.trace = Append(@, "b")]

RECURSIVE runBlock(_, _, _)
RECURSIVE runLoop(_, _)

\* After the body of a loop: break leaves the loop, continue and the end of
\* the body go to its condition.
afterBody(loop, result) ==
    IF result.signal = "stop" THEN result
    ELSE IF result.signal = "break" THEN [result EXCEPT !.signal = "end"]
    ELSE runLoop(loop, [result EXCEPT !.signal = "end"])

runLoop(loop, result) ==
    IF result.fuel = 0 THEN [result EXCEPT !.signal = "stop"]
    ELSE IF holdsIn(loop.condition, result)
    THEN afterBody(loop, runBlock(loop.loopBody, 1, [result EXCEPT !.fuel = @ - 1]))
    ELSE result

runStatement(s, result) ==
    IF s.kind = "mutation" THEN incremented(s.name, result)
    ELSE IF s.kind = "breakStatement" THEN [result EXCEPT !.signal = "break"]
    ELSE IF s.kind = "continueStatement" THEN [result EXCEPT !.signal = "continue"]
    ELSE IF s.kind = "whileLoop" THEN runLoop(s, result)
    ELSE IF holdsIn(s.condition, result) THEN runBlock(s.ifBlock, 1, result)
    ELSE runBlock(s.elseBlock, 1, result)

afterStatement(block, i, result) ==
    IF result.signal # "end" THEN result ELSE runBlock(block, i + 1, result)

runBlock(block, i, result) ==
    IF i > Len(block) THEN result
    ELSE afterStatement(block, i, runStatement(block[i], result))

\* ---- the state ----
\* Passes of a loop followed in a block: every pass increments a register
\* or leaves a loop that the next pass of the loop around it enters again.
MaxIterations == 4 * (MaxCount + 1)

loopState(position, block) ==
    [stage |-> position, condition |-> booleanValue(TRUE), jumpToOnTrue |-> <<>>,
     jumpToOnFalse |-> <<>>, registerOfA |-> 0,
     contents |-> [a |-> wide(0, 0), b |-> wide(0, 0)], assembly |-> <<>>, index |-> 0,
     flags |-> NoFlags, at |-> <<>>, block |-> block, trace |-> <<>>,
     expected |-> blockResult("end", 0, 0, <<>>, 0)]

LoopInit ==
    /\ branch \in {loopState("block", block) : block \in LoopBlocks}
    /\ RegIdle
    /\ LinkIdle
    /\ LexIdle
    /\ ArgsIdle
    /\ CondIdle
    /\ OperandIdle

\* compileBlockToAssembly as compileFunctionDefinition calls it; next to it,
\* what the statements of the block do.
LowerBlock ==
    /\ branch.stage = "block"
    /\ branch' = [branch EXCEPT
                    !.stage = "run",
                    !.assembly = compileBlockToAssembly(
                                     branch.block, 1, branchRegisters(0),
                                     assemblyForControlFlowKeywords(<<>>, <<>>), 0, <<>>).assembly,
                    !.expected = runBlock(branch.block, 1,
                                          blockResult("end", 0, 0, <<>>, MaxIterations))]
    /\ UNCHANGED outsideBranch

incrementedRegister == IF registerNamed(executed.operands[1]) = 0 THEN "a" ELSE "b"

IncrementRegister ==
    /\ Executing
    /\ executed.mnemonic = "inc"
    /\ branch.contents[incrementedRegister].low < MaxCount
    /\ branch' = [branch EXCEPT !.contents[incrementedRegister].low = @ + 1,
                                !.trace = Append(@, incrementedRegister),
                                !.index = @ + 1]
    /\ UNCHANGED outsideBranch

LoopNext ==
    \/ LowerBlock
    \/ IncrementRegister
    \/ CompareOperands
    \/ JumpInside
    \/ SkipJump
    \/ PassLabel
    \/ FallThrough

IsPrefix(text, whole) ==
    /\ Len(text) <= Len(whole)
    /\ SubSeq(whole, 1, Len(text)) = text

\* C21: the assembly of a block with while loops, branches, break and
\* continue increments the registers in the order in which the statements
\* of the block do when break leaves the innermost loop around it and
\* continue goes to the condition of that loop; it ends when the block ends.
C21_BreakLeavesAndContinueRepeats ==
    branch.stage \in {"run", "done"}
        => /\ IsPrefix(branch.trace, branch.expected.trace)
           /\ branch.stage = "done"
                  => /\ branch.expected.signal = "end"
                     /\ branch.trace = branch.expected.trace

\* C21 witness: a `while true` loop with a branch in its body has ended,
\* which only a break inside the branch does.
C21_Witness ==
    /\ branch.stage = "done"
    /\ branch.block[1].condition = booleanValue(TRUE)
    /\ branch.block[1].loopBody[2].kind = "ifElseStatement"
    /\ Len(branch.trace) >= 2

(***************************************************************************)
(* Block component: parseBlock (parser.go) on the keywords of a function   *)
(* body, and the assert of compileBlockToAssembly on the block it returns. *)
(* parsing holds the keyword list, the index of the current keyword, and   *)
(* one frame for every call of parseBlock that has not returned: the       *)
(* statement the block belongs to and the ASTitems collected so far.       *)
(***************************************************************************)
MaxPieces == 5

blockKeyword(contents, keywordType) ==
    keyword(contents, keywordType, 0, textAndPosition(0, 1, 1))

OpeningBrace == blockKeyword(<<"{">>, "IncreaseNesting")
ClosingBrace == blockKeyword(<<"}">>, "DecreaseNesting")
ElseContents == <<"e", "l", "s", "e">>
TrueKeyword == blockKeyword(<<"t", "r", "u", "e">>, "BoolValue")
NameKeyword == blockKeyword(<<"a">>, "Name")

\* The pieces the keyword lists are made of.
Pieces ==
    { <<blockKeyword(<<"r", "e", "t", "u", "r", "n">>, "FunctionReturn")>>,
      <<blockKeyword(<<"d", "r", "o", "p">>, "DropVariable"), NameKeyword>>,
      <<NameKeyword, blockKeyword(<<"+", "+">>, "Increment")>>,
      <<blockKeyword(<<"w", "h", "i", "l", "e">>, "WhileLoop"), TrueKeyword, OpeningBrace>>,
      <<blockKeyword(<<"i", "f">>, "IfStatement"), TrueKeyword, OpeningBrace>>,
      <<ClosingBrace>>,
      <<ClosingBrace, blockKeyword(ElseContents, "ElseStatement"), OpeningBrace>>,
      <<blockKeyword(<<"\n">>, "Newline")>> }

RECURSIVE joined(_, _)
joined(pieces, i) == IF i > Len(pieces) THEN <<>> ELSE pieces[i] \o joined(pieces, i + 1)

\* A function body from its opening brace on.
BlockKeywordLists ==
    {<<OpeningBrace>> \o joined(pieces, 1) :
        pieces \in UNION {[1..n -> Pieces] : n \in 1..MaxPieces}}

frame(kind, condition, ifBlock, items) ==
    [kind |-> kind, condition |-> condition, ifBlock |-> ifBlock, items |-> items]

parseState(status, keywords, currentIndex, open, ast, err) ==
    [stage |-> status, keywords |-> keywords, currentIndex |-> currentIndex, open |-> open,
     ast |-> ast, err |-> err]

BlockIdle == parsing = parseState("idle", <<>>, 0, <<>>, <<>>, NoError)

\* parseFunctionDefinition calls parseBlock with the iterator on the {.
BlockInit ==
    /\ parsing \in {parseState("parsing", keywords, 1,
                               <<frame("function", booleanValue(TRUE), <<>>, <<>>)>>, <<>>,
                               NoError) : keywords \in BlockKeywordLists}
    /\ RegIdle
    /\ LinkIdle
    /\ LexIdle
    /\ ArgsIdle
    /\ CondIdle
    /\ OperandIdle
    /\ BranchIdle

ASTitems(p) == p.open[Len(p.open)].items

parseError(p, index, msg) == [p EXCEPT !.stage = "error", !.currentIndex = index, !.err = msg]

\* add(&ASTitems, ...) in the loop of parseBlock
addItem(p, index, item) ==
    [p EXCEPT !.currentIndex = index, !.open[Len(p.open)].items = Append(@, item)]

\* The statement of a block that has returned is added to the ASTitems of the
\* block around it; rest holds the frames of the blocks around.
statementParsed(p, rest, index, item) ==
    [p EXCEPT !.currentIndex = index,
              !.open = [rest EXCEPT ![Len(rest)].items = Append(@, item)]]

\* parseIfElseStatement after the if block: index is the index of `else`.
elseBlock(p, top, rest, index, items) ==
    IF index + 1 > Len(p.keywords) THEN parseError(p, index, "UnexpectedEndOfKeywords")
    ELSE IF p.keywords[index + 1].contents # <<"{">>
    THEN parseError(p, index + 1, "ExpectingBlockStart")
    ELSE [p EXCEPT !.currentIndex = index + 1,
                   !.open = Append(rest, frame("else", top.condition, items, <<>>))]

\* parseBlock returns items with the iterator on the } at index, to
\* parseFunctionDefinition, to parseConditionalBlock or to
\* parseIfElseStatement.
blockReturned(p, top, rest, index, items) ==
    IF top.kind = "function"
    THEN [p EXCEPT !.stage = "parsed", !.currentIndex = index, !.open = rest, !.ast = items]
    ELSE IF top.kind = "while"
    THEN statementParsed(p, rest, index, whileLoop(top.condition, items))
    ELSE IF top.kind = "else"
    THEN statementParsed(p, rest, index, ifElseStatement(top.condition, top.ifBlock, items))
    ELSE IF index + 1 <= Len(p.keywords) /\ p.keywords[index + 1].contents = ElseContents
    THEN elseBlock(p, top, rest, index + 1, items)
    ELSE statementParsed(p, rest, index, ifElseStatement(top.condition, items, <<>>))

returnBlock(p, index, items) ==
    blockReturned(p, p.open[Len(p.open)], SubSeq(p.open, 1, Len(p.open) - 1), index, items)

\* case FunctionReturn, after parseFunctionArguments: the mutant goes on with
\* the loop where the code returns the block.
ReturnKeepsParsing(p, arguments) ==
    IF arguments.err.msg # NoError THEN parseError(p, arguments.index, arguments.err.msg)
    ELSE addItem(p, arguments.index, returnStatement(arguments.arguments))

returnCase(p, arguments) ==
    IF arguments.err.msg # NoError THEN parseError(p, arguments.index, arguments.err.msg)
    ELSE IF \/ p.keywords[arguments.index].keywordType # "DecreaseNesting"
            \/ p.keywords[arguments.index].contents # <<"}">>
    THEN parseError(p, arguments.index, "ExpectedClosingBrace")
    ELSE returnBlock(p, arguments.index,
                     Append(ASTitems(p), returnStatement(arguments.arguments)))

parseReturn(p, next) ==
    IF next.err.msg # NoError THEN parseError(p, next.index, next.err.msg)
    ELSE returnCase(p, parseFunctionArguments(p.keywords, next.index))

\* case RegisterKeyword, Dereference, Name: parseMutationStatement, for a
\* destination of one name (the keyword lists of the model hold no register
\* and no comma); next is the keyword after the destination.
mutationOperation(p, variable, next) ==
    IF next.err.msg # NoError THEN parseError(p, next.index, next.err.msg)
    ELSE IF p.keywords[next.index].keywordType # "Increment"
    THEN parseError(p, next.index, "ExpectedMutationOperator")
    ELSE addItem(p, next.index, incrementBy1(variable.value.name))

parseMutationStatement(p, variable) ==
    IF variable.err.msg # NoError THEN parseError(p, variable.index, variable.err.msg)
    ELSE mutationOperation(p, variable, nextNonEmpty(p.keywords, variable.index))

\* case DropVariable: next is the keyword after drop.
parseDrop(p, next) ==
    IF next.err.msg # NoError THEN parseError(p, next.index, next.err.msg)
    ELSE IF p.keywords[next.index].keywordType # "Name"
    THEN parseError(p, next.index, "ExpectedVariableName")
    ELSE addItem(p, next.index,
                 dropVariableStatement(nameOfContents(p.keywords[next.index].contents)))

\* parseConditionalBlock: the index of the first { from index on, 0 when the
\* keywords end before one.
RECURSIVE blockStart(_, _)
blockStart(keywords, index) ==
    IF keywords[index].contents = <<"{">> THEN index
    ELSE IF index + 1 > Len(keywords) THEN 0
    ELSE blockStart(keywords, index + 1)

conditionParsed(p, kind, condition, brace) ==
    IF condition.err.msg # NoError THEN parseError(p, brace, condition.err.msg)
    ELSE [p EXCEPT !.currentIndex = brace,
                   !.open = Append(@, frame(kind, condition.condition, <<>>, <<>>))]

conditionCollected(p, kind, index, brace) ==
    IF brace = 0 THEN parseError(p, Len(p.keywords), "UnexpectedEndOfKeywords")
    ELSE conditionParsed(p, kind, parseCondition(SubSeq(p.keywords, index + 1, brace - 1)), brace)

parseConditionalBlock(p, kind, index) ==
    IF index + 1 > Len(p.keywords) THEN parseError(p, index, "UnexpectedEndOfKeywords")
    ELSE conditionCollected(p, kind, index, blockStart(p.keywords, index + 1))

\* case DecreaseNesting
closingCase(p, index) ==
    IF p.keywords[index].contents = <<"}">> THEN returnBlock(p, index, ASTitems(p))
    ELSE parseError(p, index, "ExpectedClosingBrace")

\* compileBlockToAssembly, case returnStatement: assert(eq(index, len(block)-1)),
\* in the block and in the blocks of its loops and branches.
RECURSIVE returnIsLastStatement(_)
returnIsLastStatement(block) ==
    \A index \in 1 .. Len(block) :
        /\ block[index].kind = "return" => index = Len(block)
        /\ block[index].kind = "whileLoop" => returnIsLastStatement(block[index].loopBody)
        /\ block[index].kind = "ifElseStatement"
               => /\ returnIsLastStatement(block[index].ifBlock)
                  /\ returnIsLastStatement(block[index].elseBlock)

\* ---- one round of the loop of parseBlock ----
nextStatement == nextNonEmpty(parsing.keywords, parsing.currentIndex)

AtKeyword(keywordTypes) ==
    /\ parsing.stage = "parsing"
    /\ nextStatement.err.msg = NoError
    /\ parsing.keywords[nextStatement.index].keywordType \in keywordTypes

ParseEndOfKeywords ==
    /\ parsing.stage = "parsing"
    /\ nextStatement.err.msg # NoError
    /\ parsing' = parseError(parsing, nextStatement.index, nextStatement.err.msg)
    /\ UNCHANGED outsideBlock

ParseReturnStatement ==
    /\ AtKeyword({"FunctionReturn"})
    /\ parsing' = parseReturn(parsing, nextNonEmpty(parsing.keywords, nextStatement.index))
    /\ UNCHANGED outsideBlock

ParseMutationStatement ==
    /\ AtKeyword({"RegisterKeyword", "Dereference", "Name"})
    /\ parsing' = parseMutationStatement(parsing,
                                         parseVariableValue(parsing.keywords, nextStatement.index))
    /\ UNCHANGED outsideBlock

ParseDropStatement ==
    /\ AtKeyword({"DropVariable"})
    /\ parsing' = parseDrop(parsing, nextNonEmpty(parsing.keywords, nextStatement.index))
    /\ UNCHANGED outsideBlock

ParseIfStatement ==
    /\ AtKeyword({"IfStatement"})
    /\ parsing' = parseConditionalBlock(parsing, "if", nextStatement.index)
    /\ UNCHANGED outsideBlock

ParseWhileLoop ==
    /\ AtKeyword({"WhileLoop"})
    /\ parsing' = parseConditionalBlock(parsing, "while", nextStatement.index)
    /\ UNCHANGED outsideBlock

ParseClosingBrace ==
    /\ AtKeyword({"DecreaseNesting"})
    /\ parsing' = closingCase(parsing, nextStatement.index)
    /\ UNCHANGED outsideBlock

ParseUnexpectedKeyword ==
    /\ AtKeyword({"ElseStatement", "BoolValue", "Increment", "IncreaseNesting"})
    /\ parsing' = parseError(parsing, nextStatement.index, "UnexpectedKeywordType")
    /\ UNCHANGED outsideBlock

\* compileBlockToAssembly reaches the asserts of the block.
CompileParsedBlock ==
    /\ parsing.stage = "parsed"
    /\ parsing' = [parsing EXCEPT
                      !.stage = IF returnIsLastStatement(parsing.ast) THEN "compiled" ELSE "panic"]
    /\ UNCHANGED outsideBlock

BlockNext ==
    \/ ParseEndOfKeywords
    \/ ParseReturnStatement
    \/ ParseMutationStatement
    \/ ParseDropStatement
    \/ ParseIfStatement
    \/ ParseWhileLoop
    \/ ParseClosingBrace
    \/ ParseUnexpectedKeyword
    \/ CompileParsedBlock

\* C28: the block parseBlock returns for a function body holds no statement
\* after a return statement, in the body and in every block inside it, so the
\* assert of compileBlockToAssembly at a return statement does not fail.
C28_ReturnIsLastStatementOfItsBlock ==
    /\ parsing.stage # "panic"
    /\ parsing.stage \in {"parsed", "compiled"} => returnIsLastStatement(parsing.ast)

\* C28 witness: a body whose first statement is an if statement that ends in
\* a return, with a statement after the if statement, has been compiled.
C28_Witness ==
    /\ parsing.stage = "compiled"
    /\ Len(parsing.ast) >= 2
    /\ parsing.ast[1].kind = "ifElseStatement"
    /\ parsing.ast[1].ifBlock # <<>>
    /\ parsing.ast[1].ifBlock[Len(parsing.ast[1].ifBlock)].kind = "return"

(***************************************************************************)
(* The specifications: each component runs while the others stay idle.     *)
(***************************************************************************)
RegStart == RegInit /\ LinkIdle /\ LexIdle /\ ArgsIdle /\ CondIdle /\ OperandIdle /\ BranchIdle /\ BlockIdle

SpecReg == RegStart /\ [][RegNext]_vars

LinkStart == LinkInit /\ LexIdle /\ ArgsIdle /\ CondIdle /\ OperandIdle /\ BranchIdle /\ BlockIdle

SpecLink == LinkStart /\ [][LinkNext]_vars

LexStart == LexInit /\ ArgsIdle /\ CondIdle /\ OperandIdle /\ BranchIdle /\ BlockIdle

SpecLex == LexStart /\ [][LexNext]_vars

\* The rounds of lexCode, each taken when it can be: lexCode runs alone.
SpecLexFair == LexStart /\ [][LexNext]_vars /\ WF_vars(LexNext)

ArgsStart == ArgsInit /\ CondIdle /\ OperandIdle /\ BranchIdle /\ BlockIdle

SpecArgs == ArgsStart /\ [][ArgsNext]_vars

CondStart == CondInit /\ OperandIdle /\ BranchIdle /\ BlockIdle

SpecCond == CondStart /\ [][CondNext]_vars

OperandStart == OperandInit /\ BranchIdle /\ BlockIdle

SpecOperand == OperandStart /\ [][OperandNext]_vars

BranchStart == BranchInit /\ BlockIdle

SpecBranch == BranchStart /\ [][BranchNext]_vars

LoopStart == LoopInit /\ BlockIdle

SpecLoop == LoopStart /\ [][LoopNext]_vars

SpecBlock == BlockInit /\ [][BlockNext]_vars

====
